---- MODULE Spec2Model ----
(***************************************************************************)
(* Model of the question-answering pipeline of src/app.py: priority        *)
(* classification, retrieval consolidation, relevance gate, confidence     *)
(* scoring, escalation decision and answer assembly of POST /ask.          *)
(*                                                                         *)
(* Text is modelled character by character: a Python str is the tuple of   *)
(* its Unicode code points, so that lower(), strip(), the "in" substring   *)
(* test and the regular expressions of the source are computed, not        *)
(* assumed.  The comment next to a tuple gives the text in Latin           *)
(* transliteration.                                                        *)
(*                                                                         *)
(* Numbers: distance scores, relevancies and the rounded confidence are    *)
(* integers in thousandths (0.95 is 950).  Unrounded intermediate values   *)
(* of the confidence formula are exact rationals, kept as numerators over  *)
(* a common denominator.                                                   *)
(***************************************************************************)
EXTENDS Integers, Sequences, FiniteSets, TLC

(***************************************************************************)
(* str primitives                                                          *)
(***************************************************************************)

\* str.lower() on one character: A-Z, the Cyrillic capitals and capital Yo
LowerChar(c) ==
    IF (c >= 65 /\ c <= 90) \/ (c >= 1040 /\ c <= 1071) THEN c + 32
    ELSE IF c = 1025 THEN 1105
    ELSE c

\* str.upper() on one character
UpperChar(c) ==
    IF (c >= 97 /\ c <= 122) \/ (c >= 1072 /\ c <= 1103) THEN c - 32
    ELSE IF c = 1105 THEN 1025
    ELSE c

lower(s) == [i \in 1..Len(s) |-> LowerChar(s[i])]

upper(s) == [i \in 1..Len(s) |-> UpperChar(s[i])]

\* whitespace as str.strip() and the regex class \s see it
IsSpace(c) == c \in {9, 10, 11, 12, 13, 32}

\* regex class \d on the texts of the model (ASCII digits)
IsDigit(c) == c >= 48 /\ c <= 57

\* regex class [a-z0-9] plus the Cyrillic small letters and small yo, of extract_core_terms
IsCoreChar(c) ==
    \/ c >= 97 /\ c <= 122
    \/ c >= 1072 /\ c <= 1103
    \/ c = 1105
    \/ IsDigit(c)

\* regex class \w: letters of either case, digits, underscore
IsWordChar(c) == IsCoreChar(LowerChar(c)) \/ c = 95

\* str.strip()
strip(s) ==
    IF \A i \in 1..Len(s) : IsSpace(s[i]) THEN <<>>
    ELSE SubSeq(s,
                CHOOSE i \in 1..Len(s) :
                    ~IsSpace(s[i]) /\ \A j \in 1..(i - 1) : IsSpace(s[j]),
                CHOOSE i \in 1..Len(s) :
                    ~IsSpace(s[i]) /\ \A j \in (i + 1)..Len(s) : IsSpace(s[j]))

\* Python's  p in s  for two strings
Contains(s, p) ==
    \E i \in 0..(Len(s) - Len(p)) : \A j \in 1..Len(p) : s[i + j] = p[j]

\* any(p in s for p in phrases)
ContainsAny(s, phrases) == \E p \in phrases : Contains(s, p)

\* p occurs in s and is followed by at least one whitespace: regex  p\s+
ContainsThenSpace(s, p) ==
    \E i \in 0..(Len(s) - Len(p) - 1) :
        /\ \A j \in 1..Len(p) : s[i + j] = p[j]
        /\ IsSpace(s[i + Len(p) + 1])

\* set(re.findall(cls+, s)) restricted to runs of at least minlen characters,
\* where mask[i] says whether s[i] is in the class: the maximal runs
RunsOf(s, mask, minlen) ==
    LET n      == Len(s)
        starts == {i \in 1..n : mask[i] /\ (i = 1 \/ ~mask[i - 1])}
        end(i) == CHOOSE j \in i..n :
                      /\ \A k \in i..j : mask[k]
                      /\ (j = n \/ ~mask[j + 1])
    IN  {SubSeq(s, i, end(i)) : i \in {k \in starts : end(k) - k + 1 >= minlen}}

\* s[:n]
Prefix(s, n) == SubSeq(s, 1, IF Len(s) < n THEN Len(s) ELSE n)

\* text repeated n times, to write long sample texts
RECURSIVE Repeat(_, _)
Repeat(s, n) == IF n = 0 THEN <<>> ELSE s \o Repeat(s, n - 1)

(***************************************************************************)
(* Vocabulary tables of the source                                         *)
(***************************************************************************)

\* src/app.py:55-60  STOP_WORDS
STOP_WORDS ==
    {
      <<1095,1090,1086>>,   \* chto
      <<1082,1072,1082>>,   \* kak
      <<1082,1072,1082,1080,1077>>,   \* kakie
      <<1076,1083,1103>>,   \* dlya
      <<1095,1077,1075,1086>>,   \* chego
      <<1101,1090,1086>>,   \* eto
      <<1087,1088,1086>>,   \* pro
      <<1086>>,   \* o
      <<1080>>,   \* i
      <<1080,1083,1080>>,   \* ili
      <<1072>>,   \* a
      <<1074>>,   \* v
      <<1085,1072>>,   \* na
      <<1087,1086>>,   \* po
      <<1080,1079>>,   \* iz
      <<1083,1080>>,   \* li
      <<1078,1077>>,   \* zhe
      <<1085,1077>>,   \* ne
      <<1085,1086>>,   \* no
      <<1079,1072>>,   \* za
      <<1091>>,   \* u
      <<1086,1090>>,   \* ot
      <<1076,1086>>,   \* do
      <<1073,1077,1079>>,   \* bez
      <<1087,1086,1076>>,   \* pod
      <<1085,1072,1076>>,   \* nad
      <<1087,1088,1080>>,   \* pri
      <<1082>>,   \* k
      <<1089>>,   \* s
      <<1089,1086>>,   \* so
      <<1074,1086>>,   \* vo
      <<1086,1073>>,   \* ob
      <<1090,1086>>,   \* to
      <<1090,1072,1082>>,   \* tak
      <<1074,1086,1090>>,   \* vot
      <<1090,1091,1090>>    \* tut
    }

\* src/app.py:85-92  HIGH_PRIORITY_TERMS
HIGH_PRIORITY_TERMS ==
    {
      <<1076,1077,1085,1100,1075,1080>>,   \* den'gi
      <<1089,1095,1077,1090>>,   \* schet
      <<1082,1072,1088,1090,1072>>,   \* karta
      <<1087,1077,1088,1077,1074,1086,1076>>,   \* perevod
      <<1087,1083,1072,1090,1077,1078>>,   \* platezh
      <<1089,1087,1080,1089,1072,1085,1080,1077>>,   \* spisanie
      <<1084,1086,1096,1077,1085,1085,1080,1095,1077,1089,1090,1074,1086>>,   \* moshennichestvo
      <<1074,1079,1083,1086,1084>>,   \* vzlom
      <<1082,1088,1072,1078,1072>>,   \* krazha
      <<1073,1083,1086,1082,1080,1088,1086,1074,1082,1072>>,   \* blokirovka
      <<1079,1072,1073,1083,1086,1082,1080,1088,1086,1074,1072,1085>>,   \* zablokirovan
      <<1085,1077,1076,1086,1089,1090,1091,1087,1077,1085>>,   \* nedostupen
      <<1086,1096,1080,1073,1082,1072,32,1087,1077,1088,1077,1074,1086,1076,1072>>,   \* oshibka perevoda
      <<1087,1086,1090,1077,1088,1103,1083>>,   \* poteryal
      <<1091,1082,1088,1072,1083,1080>>,   \* ukrali
      <<1085,1077,1089,1072,1085,1082,1094,1080,1086,1085,1080,1088,1086,1074,1072,1085,1085,1099,
       1081>>,   \* nesankcionirovannyj
      <<1072,1088,1077,1089,1090>>,   \* arest
      <<1072,1088,1077,1089,1090,1086,1074,1072,1085>>,   \* arestovan
      <<1082,1086,1085,1092,1080,1089,1082,1072,1094,1080,1103>>,   \* konfiskaciya
      <<1072,1088,1077,1089,1090,32,1089,1095,1077,1090,1072>>,   \* arest scheta
      <<1079,1072,1084,1086,1088,1086,1078,1077,1085>>,   \* zamorozhen
      <<1089,1088,1086,1095,1085,1086>>,   \* srochno
      <<1101,1082,1089,1090,1088,1077,1085,1085,1086>>,   \* ekstrenno
      <<1082,1088,1080,1090,1080,1095,1085,1086>>,   \* kritichno
      <<1091,1075,1088,1086,1079,1072>>,   \* ugroza
      <<1073,1077,1079,1086,1087,1072,1089,1085,1086,1089,1090,1100>>,   \* bezopasnost'
      <<1087,1072,1088,1086,1083,1100>>,   \* parol'
      <<1074,1093,1086,1076>>,   \* vhod
      <<1074,1079,1083,1086,1084,1072,1083,1080>>,   \* vzlomali
      <<1092,1080,1096,1080,1085,1075>>,   \* fishing
      <<1086,1073,1084,1072,1085>>,   \* obman
      <<1089,1085,1103,1083,1080>>,   \* snyali
      <<1087,1088,1086,1087,1072,1083,1080>>,   \* propali
      <<1080,1089,1095,1077,1079,1083,1080>>,   \* ischezli
      <<1091,1082,1088,1072,1076,1077,1085>>,   \* ukraden
      <<1091,1082,1088,1072,1076,1077,1085,1072>>,   \* ukradena
      <<1079,1072,1073,1083,1086,1082,1080,1088,1086,1074,1072,1085,1072>>    \* zablokirovana
    }

\* src/app.py:94-101  MEDIUM_PRIORITY_TERMS
MEDIUM_PRIORITY_TERMS ==
    {
      <<1085,1077,32,1088,1072,1073,1086,1090,1072,1077,1090>>,   \* ne rabotaet
      <<1086,1096,1080,1073,1082,1072>>,   \* oshibka
      <<1089,1073,1086,1081>>,   \* sboj
      <<1090,1077,1093,1085,1080,1095,1077,1089,1082,1080,1077,32,1087,1088,1086,1073,1083,1077,1084,
       1099>>,   \* tehnicheskie problemy
      <<1085,1077,32,1079,1072,1093,1086,1076,1080,1090>>,   \* ne zahodit
      <<1087,1088,1080,1083,1086,1078,1077,1085,1080,1077>>,   \* prilozhenie
      <<1086,1085,1083,1072,1081,1085>>,   \* onlajn
      <<1080,1085,1090,1077,1088,1085,1077,1090,45,1073,1072,1085,1082>>,   \* internet-bank
      <<1084,1086,1073,1080,1083,1100,1085,1086,1077,32,1087,1088,1080,1083,1086,1078,1077,1085,1080,
       1077>>,   \* mobil'noe prilozhenie
      <<1089,1072,1081,1090>>,   \* sajt
      <<1076,1086,1089,1090,1091,1087>>,   \* dostup
      <<1072,1074,1090,1086,1088,1080,1079,1072,1094,1080,1103>>,   \* avtorizaciya
      <<1074,1093,1086,1076>>,   \* vhod
      <<1083,1086,1075,1080,1085>>,   \* login
      <<1087,1072,1088,1086,1083,1100>>,   \* parol'
      <<1074,1086,1089,1089,1090,1072,1085,1086,1074,1083,1077,1085,1080,1077>>,   \* vosstanovlenie
      <<1079,1072,1073,1099,1083>>,   \* zabyl
      <<1091,1090,1077,1088,1103>>,   \* uterya
      <<1089,1084,1077,1085,1072>>,   \* smena
      <<1085,1086,1084,1077,1088,32,1090,1077,1083,1077,1092,1086,1085,1072>>,   \* nomer telefona
      <<101,109,97,105,108>>,   \* email
      <<1082,1086,1085,1090,1072,1082,1090,1099>>,   \* kontakty
      <<1085,1072,1089,1090,1088,1086,1081,1082,1080>>,   \* nastrojki
      <<1086,1087,1077,1088,1072,1094,1080,1103>>,   \* operaciya
      <<1090,1088,1072,1085,1079,1072,1082,1094,1080,1103>>,   \* tranzakciya
      <<1086,1090,1082,1072,1079>>,   \* otkaz
      <<1086,1090,1082,1083,1086,1085,1077,1085,1086>>,   \* otkloneno
      <<1085,1077,32,1087,1088,1086,1093,1086,1076,1080,1090>>,   \* ne prohodit
      <<1085,1077,32,1086,1090,1082,1088,1099,1074,1072,1077,1090,1089,1103>>,   \* ne otkryvaetsya
      <<1079,1072,1074,1080,1089,1072,1077,1090>>,   \* zavisaet
      <<1090,1086,1088,1084,1086,1079,1080,1090>>,   \* tormozit
      <<1075,1083,1102,1095,1080,1090>>,   \* glyuchit
      <<1073,1072,1075>>    \* bag
    }

\* src/app.py:205-210  negative_phrases
negative_phrases ==
    {
      <<1080,1085,1092,1086,1088,1084,1072,1094,1080,1080,32,1085,1077,1090>>,   \* informacii net
      <<1085,1077,32,1079,1085,1072,1102>>,   \* ne znayu
      <<1085,1077,32,1084,1086,1075,1091,32,1086,1090,1074,1077,1090,1080,1090,1100>>,   \* ne mogu otvetit'
      <<1085,1077,1090,32,1076,1072,1085,1085,1099,1093>>,   \* net dannyh
      <<1085,1077,32,1085,1072,1081,1076,1077,1085,1086>>,   \* ne najdeno
      <<1085,1077,1080,1079,1074,1077,1089,1090,1085,1086>>,   \* neizvestno
      <<1082,32,1089,1086,1078,1072,1083,1077,1085,1080,1102,44,32,1103,32,1085,1077,32,1084,1086,1075,
       1091>>,   \* k sozhaleniyu, ya ne mogu
      <<1085,1077,32,1091,1076,1072,1083,1086,1089,1100,32,1085,1072,1081,1090,1080>>,   \* ne udalos' najti
      <<1080,1079,1074,1080,1085,1080,1090,1077,44,32,1085,1086>>,   \* izvinite, no
      <<1103,32,1085,1077,32,1085,1072,1096,1077,1083>>    \* ya ne nashel
    }

\* src/app.py:710-714  critical_phrases
critical_phrases ==
    {
      <<1091,1082,1088,1072,1083,1080>>,   \* ukrali
      <<1087,1086,1090,1077,1088,1103,1083>>,   \* poteryal
      <<1084,1086,1096,1077,1085,1085,1080,1095,1077,1089,1090,1074,1086>>,   \* moshennichestvo
      <<1074,1079,1083,1086,1084>>,   \* vzlom
      <<1082,1088,1072,1078,1072>>,   \* krazha
      <<1089,1087,1080,1089,1072,1083,1080>>,   \* spisali
      <<1085,1077,1089,1072,1085,1082,1094,1080,1086,1085,1080,1088,1086,1074,1072,1085>>,   \* nesankcionirovan
      <<1087,1088,1086,1087,1072,1083,1080,32,1076,1077,1085,1100,1075,1080>>,   \* propali den'gi
      <<1091,1082,1088,1072,1076,1077,1085>>,   \* ukraden
      <<1079,1072,1073,1083,1086,1082,1080,1088,1086,1074,1072>>,   \* zablokirova
      <<1072,1088,1077,1089,1090>>,   \* arest
      <<1082,1086,1085,1092,1080,1089,1082,1072,1094,1080,1103>>    \* konfiskaciya
    }

\* src/app.py:424-425  instruction_words
instruction_words ==
    {
      <<1096,1072,1075>>,   \* shag
      <<1076,1077,1081,1089,1090,1074,1080,1077>>,   \* dejstvie
      <<1085,1077,1086,1073,1093,1086,1076,1080,1084,1086>>,   \* neobhodimo
      <<1085,1091,1078,1085,1086>>,   \* nuzhno
      <<1090,1088,1077,1073,1091,1077,1090,1089,1103>>,   \* trebuetsya
      <<1084,1086,1078,1085,1086>>,   \* mozhno
      <<1089,1083,1077,1076,1091,1077,1090>>,   \* sleduet
      <<1088,1077,1082,1086,1084,1077,1085,1076,1091,1077,1090,1089,1103>>,   \* rekomenduetsya
      <<1089,1086,1074,1077,1090,1091,1077,1084>>    \* sovetuem
    }

\* src/app.py:745-748  not_helpful_phrases
not_helpful_phrases ==
    {
      <<1080,1085,1092,1086,1088,1084,1072,1094,1080,1080,32,1085,1077,1090>>,   \* informacii net
      <<1085,1077,32,1079,1085,1072,1102>>,   \* ne znayu
      <<1085,1077,32,1084,1086,1075,1091,32,1086,1090,1074,1077,1090,1080,1090,1100>>,   \* ne mogu otvetit'
      <<1085,1077,1090,32,1076,1072,1085,1085,1099,1093>>,   \* net dannyh
      <<1085,1077,32,1085,1072,1081,1076,1077,1085,1086,32,1080,1085,1092,1086,1088,1084,1072,1094,
       1080,1080>>    \* ne najdeno informacii
    }
\* src/app.py:451: "shag"
s_shag ==
    <<1096,1072,1075>>

\* "LOW"
s_LOW ==
    <<76,79,87>>

\* "MEDIUM"
s_MEDIUM ==
    <<77,69,68,73,85,77>>

\* "HIGH"
s_HIGH ==
    <<72,73,71,72>>

\* "low"
s_low ==
    <<108,111,119>>

\* "medium"
s_medium ==
    <<109,101,100,105,117,109>>

\* "high"
s_high ==
    <<104,105,103,104>>

\* src/app.py:1121: "Izvinite, proizoshla oshibka pri formirovanii otveta. Pozhalujsta, obratites' v podderzhku po telefonu 900."
ERROR_ANSWER ==
    <<1048,1079,1074,1080,1085,1080,1090,1077,44,32,1087,1088,1086,1080,1079,1086,1096,1083,1072,32,
    1086,1096,1080,1073,1082,1072,32,1087,1088,1080,32,1092,1086,1088,1084,1080,1088,1086,1074,1072,
    1085,1080,1080,32,1086,1090,1074,1077,1090,1072,46,32,1055,1086,1078,1072,1083,1091,1081,1089,
    1090,1072,44,32,1086,1073,1088,1072,1090,1080,1090,1077,1089,1100,32,1074,32,1087,1086,1076,1076,
    1077,1088,1078,1082,1091,32,1087,1086,32,1090,1077,1083,1077,1092,1086,1085,1091,32,57,48,48,
    46>>

(***************************************************************************)
(* Constants of the source                                                 *)
(***************************************************************************)

\* CONFIDENCE_THRESHOLD = 0.4, in thousandths
CONFIDENCE_THRESHOLD == 400

\* Python's None
None == "None"

(***************************************************************************)
(* Term Extractor and Relevance Gate                                       *)
(***************************************************************************)

\* the terms that  re.findall(r"[a-z..0-9]+", text_lower)  finds, kept when
\* they have three characters or more and are not stop words
core_terms(text_lower) ==
    {w \in RunsOf(text_lower,
                  [i \in 1..Len(text_lower) |-> IsCoreChar(text_lower[i])], 1) :
        Len(w) >= 3 /\ w \notin STOP_WORDS}

\* extract_core_terms(text)
extract_core_terms(text) == core_terms(lower(text))

\* a variant of terms_supported that any context passes
terms_supported_by_any_context(context_lower, terms, min_matches) == TRUE

\* matches >= min_matches for the terms of the question, TRUE without terms
terms_supported(context_lower, terms, min_matches) ==
    IF terms = {} THEN TRUE
    ELSE Cardinality({t \in terms : Contains(context_lower, t)}) >= min_matches

\* context_supports_question(context, question, min_matches)
context_supports_question(context, question, min_matches) ==
    terms_supported(lower(context), extract_core_terms(question), min_matches)

(***************************************************************************)
(* Priority Classifier                                                     *)
(***************************************************************************)

\* a variant of get_question_priority_keywords that looks for the terms of
\* medium priority first
get_question_priority_keywords_medium_first(question) ==
    IF ContainsAny(lower(question), MEDIUM_PRIORITY_TERMS) THEN s_medium
    ELSE IF ContainsAny(lower(question), HIGH_PRIORITY_TERMS) THEN s_high
    ELSE s_low

\* get_question_priority_keywords(question)
get_question_priority_keywords(question) ==
    LET q_lower == lower(question)
    IN  IF ContainsAny(q_lower, HIGH_PRIORITY_TERMS) THEN s_high
        ELSE IF ContainsAny(q_lower, MEDIUM_PRIORITY_TERMS) THEN s_medium
        ELSE s_low

\* An LLM call that returns text either raises (exception, timeout) or
\* returns a str
Raises == [raises |-> TRUE]
Returns(t) == [raises |-> FALSE, text |-> t]

\* the branch of detect_priority that returns: TRUE when the LLM answer is
\* accepted, FALSE when the keyword classification is used
llm_label_valid(reply) ==
    /\ ~reply.raises
    /\ upper(strip(reply.text)) \in {s_LOW, s_MEDIUM, s_HIGH}

\* detect_priority(llm, question), reply being what the LLM call does
detect_priority(reply, question) ==
    IF llm_label_valid(reply)
    THEN IF ContainsAny(lower(question), critical_phrases)
         THEN s_HIGH
         ELSE upper(strip(reply.text))
    ELSE upper(get_question_priority_keywords(question))

(***************************************************************************)
(* Confidence Scorer                                                       *)
(***************************************************************************)

\* regex  \d+\.\s  : a digit, a full stop, a whitespace
HasNumberedList(s) ==
    \E i \in 1..(Len(s) - 2) :
        IsDigit(s[i]) /\ s[i + 1] = 46 /\ IsSpace(s[i + 2])

\* regex  [-*]\s  with the bullet U+2022 in the class
HasBulletList(s) ==
    \E i \in 1..(Len(s) - 1) : s[i] \in {45, 8226, 42} /\ IsSpace(s[i + 1])

\* regex  \d+
HasDigit(s) == \E i \in 1..Len(s) : IsDigit(s[i])

\* regex  shag\s+\d+
HasStepNumber(s) ==
    \E i \in 0..(Len(s) - Len(s_shag) - 2) :
        /\ \A j \in 1..Len(s_shag) : s[i + j] = s_shag[j]
        /\ \E e \in (i + Len(s_shag) + 1)..(Len(s) - 1) :
               /\ \A k \in (i + Len(s_shag) + 1)..e : IsSpace(s[k])
               /\ IsDigit(s[e + 1])

\* Denominators of the exact values.  A length score is a numerator over
\* LengthDen, a quality total over QualityDen, the confidence sum over
\* ScoreDen * k, k being the number of answer terms of the alignment.
LengthDen == 14100

\* 20 * LengthDen
QualityDen == 282000

\* 20 * QualityDen
ScoreDen == 5640000

\* min(hi, .) and then max(lo, .), as in  max(lo, min(hi, x))
Clamp(x, lo, hi) == IF x > hi THEN (IF hi < lo THEN lo ELSE hi)
                    ELSE IF x < lo THEN lo ELSE x

\* the length score of analyze_answer_quality over LengthDen:
\* len/30 ; 1.0 ; 0.7 + (len - 30)/470 * 0.3, then max(0.3, min(1.0, .))
length_score(answer_length) ==
    Clamp(IF answer_length < 30
          THEN answer_length * (LengthDen \div 30)
          ELSE IF answer_length > 500
          THEN LengthDen
          ELSE 9870 + (answer_length - 30) * 9,
          4230, LengthDen)

\* the number of the three structure patterns that the answer matches
structure_matches(answer) ==
      (IF HasNumberedList(answer) THEN 1 ELSE 0)
    + (IF HasBulletList(answer) THEN 1 ELSE 0)
    + (IF ContainsAny(answer,
            {
              <<1055,1077,1088,1074,1099,1081>>,   \* Pervyj
              <<1087,1077,1088,1074,1099,1081>>,   \* pervyj
              <<1042,1090,1086,1088,1086,1081>>,   \* Vtoroj
              <<1074,1090,1086,1088,1086,1081>>,   \* vtoroj
              <<1058,1088,1077,1090,1080,1081>>,   \* Tretij
              <<1090,1088,1077,1090,1080,1081>>    \* tretij
            }) THEN 1 ELSE 0)

\* the specificity score 0.8 / 0.7 / 0.5, in tenths
specificity_tenths(answer, answer_lower) ==
    IF HasDigit(answer) THEN 8
    ELSE IF ContainsAny(answer_lower,
            {
              <<1089,1073,1077,1088,1073,1072,1085,1082>>,   \* sberbank
              <<1082,1072,1088,1090,1072>>,   \* karta
              <<1089,1095,1077,1090>>,   \* schet
              <<1087,1072,1088,1086,1083,1100>>    \* parol'
            }) THEN 7
    ELSE 5

\* the dict that analyze_answer_quality returns; total_score weighs length
\* 0.15, negatives 0.50, structure 0.20, specificity 0.15, over QualityDen
quality_scores(answer_length, length, has_negative, matches, specificity) ==
    [length       |-> [score |-> length, length |-> answer_length],
     negatives    |-> [score |-> IF has_negative THEN 0 ELSE 1,
                       has_negative |-> has_negative],
     \* min(structure_matches / 2, 1.0), in halves
     structure    |-> [score_halves |-> Clamp(matches, 0, 2),
                       matches |-> matches],
     specificity  |-> [score_tenths |-> specificity],
     total_score  |->   length * 3
                      + (IF has_negative THEN 0 ELSE 141000)
                      + Clamp(matches, 0, 2) * 28200
                      + specificity * 4230]

\* analyze_answer_quality(answer, question)
analyze_answer_quality(answer, question) ==
    quality_scores(Len(answer),
                   length_score(Len(answer)),
                   ContainsAny(lower(answer), negative_phrases),
                   structure_matches(answer),
                   specificity_tenths(answer, lower(answer)))

\* the terms of a text in calculate_context_alignment: words of three
\* characters or more that are not stop words
alignment_terms(text_lower) ==
    {w \in RunsOf(text_lower,
                  [i \in 1..Len(text_lower) |-> IsWordChar(text_lower[i])], 3) :
        w \notin STOP_WORDS}

\* the bonuses of calculate_context_alignment, in hundredths
alignment_bonuses(answer, answer_lower) ==
      (IF ContainsAny(answer_lower, instruction_words) THEN 15 ELSE 0)
    + (IF HasDigit(answer) THEN 10 ELSE 0)
    + (IF ContainsAny(answer_lower,
            {
              <<115,98,101,114,98,97,110,107,46,114,117>>,   \* sberbank.ru
              <<104,116,116,112,115,58,47,47>>    \* https://
            }) THEN 10 ELSE 0)

\* matches / k + bonuses, then max(0.4, min(1.0, .)): <<a, k>> stands for
\* a / (100 * k)
alignment_value(k, matches, bonuses) ==
    <<Clamp(100 * matches + bonuses * k, 40 * k, 100 * k), k>>

\* the alignment from the two term sets
alignment_of(answer_terms, context_terms, bonuses) ==
    IF answer_terms = {} THEN <<50, 1>>
    ELSE alignment_value(Cardinality(answer_terms),
                         Cardinality(answer_terms \cap context_terms),
                         bonuses)

\* calculate_context_alignment(answer, context): the pair <<a, k>> stands for
\* the value a / (100 * k)
calculate_context_alignment(answer, context) ==
    IF answer = <<>> \/ context = <<>> THEN <<50, 1>>
    ELSE alignment_of(alignment_terms(lower(answer)),
                      alignment_terms(Prefix(lower(context), 2000)),
                      alignment_bonuses(answer, lower(answer)))

\* any(re.search(pattern, answer_lower) for pattern in patterns)
matches_instruction_pattern(answer_lower) ==
    \/ HasNumberedList(answer_lower)
    \/ HasBulletList(answer_lower)
    \/ HasStepNumber(answer_lower)
    \/ \E w \in
            {
              <<1089,1085,1072,1095,1072,1083,1072>>,   \* snachala
              <<1079,1072,1090,1077,1084>>,   \* zatem
              <<1087,1086,1089,1083,1077>>,   \* posle
              <<1085,1072,1078,1084,1080,1090,1077>>,   \* nazhmite
              <<1074,1099,1073,1077,1088,1080,1090,1077>>,   \* vyberite
              <<1074,1074,1077,1076,1080,1090,1077>>    \* vvedite
            } : ContainsThenSpace(answer_lower, w)

\* has_concrete_instructions(answer)
has_concrete_instructions(answer) == matches_instruction_pattern(lower(answer))

\* get_confidence_interpretation(score, priority), score in thousandths
get_confidence_interpretation(score, priority) ==
    [base |-> IF score >= 850 THEN "very high"
              ELSE IF score >= 700 THEN "high"
              ELSE IF score >= 550 THEN "medium"
              ELSE IF score >= 400 THEN "moderate"
              ELSE IF score >= 250 THEN "low"
              ELSE "very low",
     important |-> (priority = s_high /\ score > 700)]

\* sum of a sequence of integers
RECURSIVE SumSeq(_)
SumSeq(s) == IF s = <<>> THEN 0 ELSE Head(s) + SumSeq(Tail(s))

\* the position of a largest element of a non-empty sequence
ArgMax(xs) == CHOOSE i \in 1..Len(xs) : \A j \in 1..Len(xs) : xs[i] >= xs[j]

\* the sequence without its element at position i
Without(xs, i) ==
    [j \in 1..(Len(xs) - 1) |-> IF j < i THEN xs[j] ELSE xs[j + 1]]

\* sorted(xs, reverse=True) for a sequence of integers
RECURSIVE SortDesc(_)
SortDesc(xs) ==
    IF xs = <<>> THEN <<>>
    ELSE <<xs[ArgMax(xs)]>> \o SortDesc(Without(xs, ArgMax(xs)))

\* the quotient q with remainder r of a division by unit, rounded to the
\* nearest integer; a tie goes to the even neighbour
RoundHalfEven(q, r, unit) ==
    IF 2 * r > unit THEN q + 1
    ELSE IF 2 * r = unit THEN q + (q % 2)
    ELSE q

\* round(x, 3) of the value n / den (den a multiple of 1000, n >= 0), in
\* thousandths
Round3(n, den) ==
    RoundHalfEven(n \div (den \div 1000), n % (den \div 1000), den \div 1000)

\* a variant of FactorSum with the weights of the answer quality and of the
\* best document exchanged
FactorSum_exchanged(best_relevancy, top_sum, top_n, quality_total, alignment) ==
      alignment[2] * (best_relevancy * 1974
                      + top_sum * (1128 \div top_n)
                      + quality_total * 6)
    + alignment[1] * 8460

\* The unrounded weighted sum of the four factors as the numerator over
\* ScoreDen * k: best * 0.3 + average * 0.2 + quality * 0.35 + alignment * 0.15
FactorSum(best_relevancy, top_sum, top_n, quality_total, alignment) ==
      alignment[2] * (best_relevancy * 1692
                      + top_sum * (1128 \div top_n)
                      + quality_total * 7)
    + alignment[1] * 8460

\* a variant of final_score that rounds without limiting the range
final_score_unlimited(sum, den, bonus) ==
    Round3(IF bonus THEN sum + den \div 10 ELSE sum, den)

\* the bonus of 0.1 for concrete instructions, min(score + 0.1, 1.0), then
\* max(0.0, min(1.0, score)) and round(score, 3); sum is over den
final_score(sum, den, bonus) ==
    Round3(Clamp(IF bonus
                 THEN (IF sum + den \div 10 > den THEN den
                       ELSE sum + den \div 10)
                 ELSE sum,
                 0, den),
           den)

\* what calculate_confidence returns for the rounded score:
\* [score, details, interpretation]
confidence_result(best_relevancy, top_sum, top_n, quality, alignment, bonus, confidence_score, priority) ==
    [score |-> confidence_score,
     details |->
        [factors |->
            [best_document_relevancy |-> best_relevancy,
             top_documents_relevancy |-> [sum |-> top_sum, count |-> top_n],
             answer_quality |-> quality,
             context_alignment |-> alignment,
             concrete_instructions_bonus |-> bonus],
         interpretation |-> get_confidence_interpretation(confidence_score, priority),
         final_score |-> confidence_score],
     interpretation |-> get_confidence_interpretation(confidence_score, priority)]

\* the factors are weighed into the score
weighed(best_relevancy, top_sum, top_n, quality, alignment, bonus, priority) ==
    confidence_result(best_relevancy, top_sum, top_n, quality, alignment, bonus,
                      final_score(FactorSum(best_relevancy, top_sum, top_n,
                                            quality.total_score, alignment),
                                  ScoreDen * alignment[2], bonus),
                      priority)

\* the relevancy factors from the relevancies sorted in descending order:
\* the best one and the first top_n = min(3, len(relevancy_scores))
ranked(sorted_relevancy, top_n, quality, alignment, bonus, priority) ==
    weighed(sorted_relevancy[1], SumSeq(SubSeq(sorted_relevancy, 1, top_n)),
            top_n, quality, alignment, bonus, priority)

\* calculate_confidence(docs_with_scores, question, answer, context, priority)
\* returns [score, details, interpretation]
calculate_confidence(docs_with_scores, question, answer, context, priority) ==
    IF docs_with_scores = <<>>
    THEN [score |-> 100,
          details |-> [factors |-> [no_documents |-> TRUE],
                       interpretation |-> [base |-> "very low (no documents)",
                                           important |-> FALSE]],
          interpretation |-> [base |-> "very low (no documents)",
                              important |-> FALSE]]
    ELSE ranked(SortDesc([i \in 1..Len(docs_with_scores) |->
                              1000 - docs_with_scores[i][2]]),
                IF Len(docs_with_scores) < 3 THEN Len(docs_with_scores) ELSE 3,
                analyze_answer_quality(answer, question),
                calculate_context_alignment(answer, context),
                has_concrete_instructions(answer),
                priority)


(***************************************************************************)
(* Escalation Decision Engine                                              *)
(***************************************************************************)

\* a variant of needs_immediate_escalation that escalates a confidence equal
\* to the threshold too
needs_immediate_escalation_at_threshold(confidence, priority) ==
    IF confidence <= CONFIDENCE_THRESHOLD
    THEN <<TRUE, [text |-> "below threshold", confidence |-> confidence]>>
    ELSE <<FALSE, [text |-> "", confidence |-> 0]>>

\* needs_immediate_escalation(confidence, priority): <<escalate, reason>>.
\* A reason string is the record of its template and of the confidence
\* that the template formats as a percentage with one decimal.
needs_immediate_escalation(confidence, priority) ==
    IF confidence < CONFIDENCE_THRESHOLD
    THEN IF priority = s_high
         THEN <<TRUE, [text |-> "below threshold, high priority",
                       confidence |-> confidence]>>
         ELSE IF priority = s_medium
         THEN <<TRUE, [text |-> "below threshold", confidence |-> confidence]>>
         ELSE <<TRUE, [text |-> "below threshold", confidence |-> confidence]>>
    ELSE <<FALSE, [text |-> "", confidence |-> 0]>>

\* a variant of get_escalation_level that compares the priority in lower
\* case
get_escalation_level_any_case(priority, confidence) ==
    IF lower(priority) = s_high
    THEN <<"L3", [text |-> "high priority", confidence |-> confidence]>>
    ELSE IF confidence < CONFIDENCE_THRESHOLD
    THEN IF lower(priority) = s_medium
         THEN <<"L2", [text |-> "technical problem needs a specialist",
                       confidence |-> confidence]>>
         ELSE <<"L1", [text |-> "information question needs clarification",
                       confidence |-> confidence]>>
    ELSE <<None, [text |-> "", confidence |-> 0]>>

\* get_escalation_level(priority, confidence): <<level, reason>>
get_escalation_level(priority, confidence) ==
    IF priority = s_high
    THEN IF confidence < CONFIDENCE_THRESHOLD
         THEN <<"L3", [text |-> "critical finance/security problem",
                       confidence |-> confidence]>>
         ELSE <<"L3", [text |-> "high priority needs expert check on L3",
                       confidence |-> 0]>>
    ELSE IF confidence < CONFIDENCE_THRESHOLD
    THEN IF priority = s_medium
         THEN <<"L2", [text |-> "technical problem needs a specialist",
                       confidence |-> confidence]>>
         ELSE <<"L1", [text |-> "information question needs clarification",
                       confidence |-> confidence]>>
    ELSE <<None, [text |-> "", confidence |-> 0]>>

\* a variant of generate_low_confidence_response that compares the priority
\* in lower case
generate_low_confidence_response_any_case(priority, confidence, reason) ==
    IF lower(priority) = s_high
    THEN <<[kind |-> "scripted", template |-> "L3 security specialists",
            reason |-> reason], "L3">>
    ELSE IF lower(priority) = s_medium
    THEN <<[kind |-> "scripted", template |-> "L2 technical specialist",
            reason |-> reason], "L2">>
    ELSE <<[kind |-> "scripted", template |-> "L1 consultant",
            reason |-> reason], "L1">>

\* generate_low_confidence_response(priority, confidence, reason):
\* <<answer, route>>.  The scripted answer is the record of the template
\* (the security-specialist L3 text, the technical-specialist L2 text, the
\* consultant L1 text) and of the reason the template quotes.
generate_low_confidence_response(priority, confidence, reason) ==
    IF priority = s_high
    THEN <<[kind |-> "scripted", template |-> "L3 security specialists",
            reason |-> reason], "L3">>
    ELSE IF priority = s_medium
    THEN <<[kind |-> "scripted", template |-> "L2 technical specialist",
            reason |-> reason], "L2">>
    ELSE <<[kind |-> "scripted", template |-> "L1 consultant",
            reason |-> reason], "L1">>

(***************************************************************************)
(* Query Expansion Controller                                              *)
(***************************************************************************)

\* the text has a line feed
HasBreak(text) == \E i \in 1..Len(text) : text[i] = 10

\* the position of the first line feed of a text that has one
FirstBreak(text) ==
    CHOOSE i \in 1..Len(text) :
        text[i] = 10 /\ \A j \in 1..(i - 1) : text[j] /= 10

\* text.split('\n')
RECURSIVE split_lines(_)
split_lines(text) ==
    IF ~HasBreak(text) THEN <<text>>
    ELSE <<SubSeq(text, 1, FirstBreak(text) - 1)>>
             \o split_lines(SubSeq(text, FirstBreak(text) + 1, Len(text)))

\* the class [\d\-\.\)\s] with the bullet U+2022 of the list-marker regex
IsListMarkerChar(c) == IsDigit(c) \/ c \in {45, 8226, 46, 41} \/ IsSpace(c)

\* re.sub(r'^[\d\-\.\)\s]+', '', line)
strip_list_marker(line) ==
    IF \A i \in 1..Len(line) : IsListMarkerChar(line[i]) THEN <<>>
    ELSE SubSeq(line,
                CHOOSE i \in 1..Len(line) :
                    /\ ~IsListMarkerChar(line[i])
                    /\ \A j \in 1..(i - 1) : IsListMarkerChar(line[j]),
                Len(line))

\* a dict gets the key x: a key that is present keeps its position
add_key(keys, x) ==
    IF \E i \in 1..Len(keys) : keys[i] = x THEN keys ELSE Append(keys, x)

\* a variant of fromkeys that keeps the repeated elements
fromkeys_keeping_repeats(xs) == xs

\* list(dict.fromkeys(xs)): the first occurrence of every element, in order
RECURSIVE fromkeys(_)
fromkeys(xs) ==
    IF xs = <<>> THEN <<>>
    ELSE add_key(fromkeys(SubSeq(xs, 1, Len(xs) - 1)), xs[Len(xs)])

\* the body of the loop of expand_query for a stripped line and its
\* clean_line
add_clean_line(expansions, line, clean_line, question) ==
    IF line /= <<>> /\ Len(line) > 10
       /\ clean_line /= <<>> /\ clean_line /= question
    THEN Append(expansions, clean_line)
    ELSE expansions

\* the loop of expand_query over the first n lines
RECURSIVE expansions_after(_, _, _)
expansions_after(lines, n, question) ==
    IF n = 0 THEN <<question>>
    ELSE add_clean_line(expansions_after(lines, n - 1, question),
                        strip(lines[n]),
                        strip_list_marker(strip(lines[n])),
                        question)

\* the loop of expand_query over all lines
expansions_of(lines, question) == expansions_after(lines, Len(lines), question)

\* expand_query(llm, question), reply being what the LLM call does
expand_query(reply, question) ==
    IF reply.raises THEN <<question>>
    ELSE Prefix(fromkeys(expansions_of(split_lines(reply.text), question)), 4)

(***************************************************************************)
(* Retrieval Consolidator                                                  *)
(***************************************************************************)

\* A retrieved document is [page_content, metadata]; an index hit is the
\* pair <<document, distance score>>, the score in thousandths.

\* the salt of hash(), drawn by the interpreter when it starts
VARIABLE hash_seed

\* hash(s) of a str: equal strings have equal hashes and different strings
\* may collide.  The value mixes all characters of s (halving s, so that the
\* evaluation stays shallow) with the salt that the interpreter draws when
\* it starts, and stands for the hash of the interpreter.
RECURSIVE hash(_)
hash(s) ==
    IF s = <<>> THEN hash_seed
    ELSE IF Len(s) = 1 THEN (s[1] + hash_seed) % 65521
    ELSE LET half == Len(s) \div 2
         IN  (hash(SubSeq(s, 1, half)) * 31
                + hash(SubSeq(s, half + 1, Len(s)))) % 65521


\* the position of doc_hash among the keys of unique_docs, 0 when absent
key_position(unique_docs, doc_hash) ==
    IF \E i \in 1..Len(unique_docs) : unique_docs[i][1] = doc_hash
    THEN CHOOSE i \in 1..Len(unique_docs) : unique_docs[i][1] = doc_hash
    ELSE 0

\* a variant of put_hit that keeps the hit pooled last
put_hit_last(unique_docs, hit, doc_hash, at) ==
    IF at = 0 THEN Append(unique_docs, <<doc_hash, hit>>)
    ELSE [unique_docs EXCEPT ![at] = <<doc_hash, hit>>]

\* if doc_hash not in unique_docs or score < unique_docs[doc_hash][1]:
\*     unique_docs[doc_hash] = (doc, score)
\* for the hit whose key has the position at (0: absent)
put_hit(unique_docs, hit, doc_hash, at) ==
    IF at = 0 THEN Append(unique_docs, <<doc_hash, hit>>)
    ELSE IF hit[2] < unique_docs[at][2][2]
    THEN [unique_docs EXCEPT ![at] = <<doc_hash, hit>>]
    ELSE unique_docs

\* the body of the deduplication loop for one hit
see_hit(unique_docs, hit, doc_hash) ==
    put_hit(unique_docs, hit, doc_hash, key_position(unique_docs, doc_hash))

\* the dict unique_docs after the first n pooled hits, as the sequence of
\* its items <<doc_hash, hit>> in insertion order
RECURSIVE unique_docs_after(_, _)
unique_docs_after(all_docs, n) ==
    IF n = 0 THEN <<>>
    ELSE see_hit(unique_docs_after(all_docs, n - 1),
                 all_docs[n],
                 hash(Prefix(all_docs[n][1].page_content, 200)))

\* unique_docs.values()
values_of(items) == [i \in 1..Len(items) |-> items[i][2]]

\* the position of the first hit with the least score
FirstMin(hits) ==
    CHOOSE i \in 1..Len(hits) :
        /\ \A j \in 1..Len(hits) : hits[i][2] <= hits[j][2]
        /\ \A j \in 1..(i - 1) : hits[j][2] > hits[i][2]

\* a variant of sorted_by_score that keeps the order of insertion
unsorted(hits) == hits

\* sorted(hits, key=lambda x: x[1]): stable, ascending by score
RECURSIVE sorted_by_score(_)
sorted_by_score(hits) ==
    IF hits = <<>> THEN <<>>
    ELSE <<hits[FirstMin(hits)]>>
             \o sorted_by_score(Without(hits, FirstMin(hits)))

\* a variant of consolidate that returns the hits in the order of their
\* keys, the order in which a hash-ordered container is iterated
consolidate_in_key_order(all_docs) ==
    LET unique_docs == unique_docs_after(all_docs, Len(all_docs))
    IN  [r \in 1..Len(unique_docs) |->
            unique_docs[CHOOSE i \in 1..Len(unique_docs) :
                Cardinality({j \in 1..Len(unique_docs) :
                    unique_docs[j][1] < unique_docs[i][1]}) = r - 1][2]]

\* lines 1013-1021 of ask: deduplicate the pool and sort it
consolidate(all_docs) ==
    sorted_by_score(values_of(unique_docs_after(all_docs, Len(all_docs))))

(***************************************************************************)
(* Relevance Gate                                                          *)
(***************************************************************************)

\* sep.join(parts)
RECURSIVE join(_, _)
join(sep, parts) ==
    IF parts = <<>> THEN <<>>
    ELSE IF Len(parts) = 1 THEN parts[1]
    ELSE join(sep, SubSeq(parts, 1, Len(parts) - 1)) \o sep \o parts[Len(parts)]

\* page contents of a sequence of hits
contents_of(hits) == [i \in 1..Len(hits) |-> hits[i][1].page_content]

\* the loop of ask that builds used_docs, from position i of sorted_docs on
RECURSIVE gate_from(_, _, _, _)
gate_from(sorted_docs, i, question, used_docs) ==
    IF i > Len(sorted_docs) THEN used_docs
    ELSE LET doc   == sorted_docs[i][1]
             score == sorted_docs[i][2]
             used2 == Append(used_docs, sorted_docs[i])
         IN  IF score > 950
             THEN gate_from(sorted_docs, i + 1, question, used_docs)
             ELSE IF ~context_supports_question(doc.page_content, question, 1)
             THEN gate_from(sorted_docs, i + 1, question, used_docs)
             ELSE IF Len(join(<<10, 10>>, contents_of(used2))) > 3500
             THEN used2
             ELSE IF Len(used2) >= 5
             THEN used2
             ELSE gate_from(sorted_docs, i + 1, question, used2)

\* lines 1056-1074 of ask
relevance_gate(sorted_docs, question) == gate_from(sorted_docs, 1, question, <<>>)

(***************************************************************************)
(* Judge                                                                   *)
(***************************************************************************)

\* The judge chain raises (LLM error, output that is not JSON), returns a
\* JSON value that is not an object, or returns an object.  A dict is the
\* function from its keys to their values.
JudgeRaises == [kind |-> "raises"]
JudgeDict(d) == [kind |-> "dict", value |-> d]

\* Python truthiness of a route value
Truthy(route) == route /= None /\ route /= ""

\* if "helped" not in result: ...
with_helped(result, answer_lower) ==
    IF "helped" \notin DOMAIN result
    THEN result @@ ("helped" :> ~ContainsAny(answer_lower, not_helpful_phrases))
    ELSE result

\* if "priority" not in result: ...
with_priority(result, priority) ==
    IF "priority" \notin DOMAIN result
    THEN result @@ ("priority" :> lower(priority))
    ELSE result

\* needs_human of judge_answer
needs_human(result, answer_lower) ==
    \/ /\ result["priority"] = s_high
       /\ ContainsAny(answer_lower,
               {
                 <<1087,1086,1079,1074,1086,1085,1080,1090,1077>>,   \* pozvonite
                 <<1086,1073,1088,1072,1090,1080,1090,1077,1089,1100>>,   \* obratites'
                 <<1089,1086,1090,1088,1091,1076,1085,1080,1082>>    \* sotrudnik
               })
    \/ /\ result["priority"] = s_medium
       /\ ContainsAny(answer_lower,
               {
                 <<1087,1086,1079,1074,1086,1085,1080,1090,1077,32,1074,32,1087,1086,1076,1076,1077,1088,1078,
                 1082,1091>>,   \* pozvonite v podderzhku
                 <<1086,1073,1088,1072,1090,1080,1090,1077,1089,1100,32,1082,32,1086,1087,1077,1088,1072,1090,
                 1086,1088,1091>>    \* obratites' k operatoru
               })

\* if "route_to" not in result: ...
with_route_to(result, answer_lower) ==
    IF "route_to" \notin DOMAIN result
    THEN result @@ ("route_to" :>
             IF ~result["helped"]
             THEN IF result["priority"] = s_high THEN "L3"
                  ELSE IF result["priority"] = s_medium THEN "L2"
                  ELSE "L1"
             ELSE IF needs_human(result, answer_lower)
             THEN IF result["priority"] = s_high THEN "L3" ELSE "L2"
             ELSE None)
    ELSE result

\* if "reason" not in result: ...
with_reason(result) ==
    IF "reason" \notin DOMAIN result
    THEN result @@ ("reason" :>
             IF result["helped"]
             THEN IF Truthy(result["route_to"])
                  THEN "answered, an employee is needed for further actions"
                  ELSE "the agent fully answered"
             ELSE "the agent could not find the information")
    ELSE result

\* judge_answer(llm, question, answer, context, priority)
judge_answer(reply, question, answer, context, priority) ==
    IF reply.kind = "raises"
    THEN   ("helped" :> TRUE)
        @@ ("priority" :> lower(priority))
        @@ ("route_to" :> IF priority = s_HIGH THEN "L2" ELSE None)
        @@ ("reason" :> "judge error, assume the agent answered")
    ELSE with_reason(
             with_route_to(
                 with_priority(
                     with_helped(IF reply.kind = "dict" THEN reply.value
                                 ELSE <<>>,
                                 lower(answer)),
                     priority),
                 lower(answer)))
\* src/app.py:62-83  the sections of the site in the order of the dict: keyword, URL
SBER_SITE_SECTIONS ==
    <<
      \* karta -> https://www.sberbank.ru/ru/person/bank_cards
      <<<<1082,1072,1088,1090,1072>>,
        <<104,116,116,112,115,58,47,47,119,119,119,46,115,98,101,114,98,97,110,107,46,114,117,47,114,117,
        47,112,101,114,115,111,110,47,98,97,110,107,95,99,97,114,100,115>>>>,
      \* vklad -> https://www.sberbank.ru/ru/person/contributions
      <<<<1074,1082,1083,1072,1076>>,
        <<104,116,116,112,115,58,47,47,119,119,119,46,115,98,101,114,98,97,110,107,46,114,117,47,114,117,
        47,112,101,114,115,111,110,47,99,111,110,116,114,105,98,117,116,105,111,110,115>>>>,
      \* kredit -> https://www.sberbank.ru/ru/person/credits
      <<<<1082,1088,1077,1076,1080,1090>>,
        <<104,116,116,112,115,58,47,47,119,119,119,46,115,98,101,114,98,97,110,107,46,114,117,47,114,117,
        47,112,101,114,115,111,110,47,99,114,101,100,105,116,115>>>>,
      \* iis -> https://www.sberbank.ru/ru/person/investments/iis
      <<<<1080,1080,1089>>,
        <<104,116,116,112,115,58,47,47,119,119,119,46,115,98,101,114,98,97,110,107,46,114,117,47,114,117,
        47,112,101,114,115,111,110,47,105,110,118,101,115,116,109,101,110,116,115,47,105,105,115>>>>,
      \* investicii -> https://www.sberbank.ru/ru/person/investments
      <<<<1080,1085,1074,1077,1089,1090,1080,1094,1080,1080>>,
        <<104,116,116,112,115,58,47,47,119,119,119,46,115,98,101,114,98,97,110,107,46,114,117,47,114,117,
        47,112,101,114,115,111,110,47,105,110,118,101,115,116,109,101,110,116,115>>>>,
      \* ipoteka -> https://www.sberbank.ru/ru/person/credits/mortgage
      <<<<1080,1087,1086,1090,1077,1082,1072>>,
        <<104,116,116,112,115,58,47,47,119,119,119,46,115,98,101,114,98,97,110,107,46,114,117,47,114,117,
        47,112,101,114,115,111,110,47,99,114,101,100,105,116,115,47,109,111,114,116,103,97,103,101>>>>,
      \* perevod -> https://www.sberbank.ru/ru/person/transfer
      <<<<1087,1077,1088,1077,1074,1086,1076>>,
        <<104,116,116,112,115,58,47,47,119,119,119,46,115,98,101,114,98,97,110,107,46,114,117,47,114,117,
        47,112,101,114,115,111,110,47,116,114,97,110,115,102,101,114>>>>,
      \* platezh -> https://www.sberbank.ru/ru/person/payments
      <<<<1087,1083,1072,1090,1077,1078>>,
        <<104,116,116,112,115,58,47,47,119,119,119,46,115,98,101,114,98,97,110,107,46,114,117,47,114,117,
        47,112,101,114,115,111,110,47,112,97,121,109,101,110,116,115>>>>,
      \* onlajn -> https://www.sberbank.ru/ru/person/sberbankonline
      <<<<1086,1085,1083,1072,1081,1085>>,
        <<104,116,116,112,115,58,47,47,119,119,119,46,115,98,101,114,98,97,110,107,46,114,117,47,114,117,
        47,112,101,114,115,111,110,47,115,98,101,114,98,97,110,107,111,110,108,105,110,101>>>>,
      \* prilozhenie -> https://www.sberbank.ru/ru/person/sberbankonline/mobileapp
      <<<<1087,1088,1080,1083,1086,1078,1077,1085,1080,1077>>,
        <<104,116,116,112,115,58,47,47,119,119,119,46,115,98,101,114,98,97,110,107,46,114,117,47,114,117,
        47,112,101,114,115,111,110,47,115,98,101,114,98,97,110,107,111,110,108,105,110,101,47,109,111,98,
        105,108,101,97,112,112>>>>,
      \* vosstanovlenie -> https://www.sberbank.ru/ru/person/sberbankonline/restore
      <<<<1074,1086,1089,1089,1090,1072,1085,1086,1074,1083,1077,1085,1080,1077>>,
        <<104,116,116,112,115,58,47,47,119,119,119,46,115,98,101,114,98,97,110,107,46,114,117,47,114,117,
        47,112,101,114,115,111,110,47,115,98,101,114,98,97,110,107,111,110,108,105,110,101,47,114,101,
        115,116,111,114,101>>>>,
      \* bezopasnost' -> https://www.sberbank.ru/ru/person/security
      <<<<1073,1077,1079,1086,1087,1072,1089,1085,1086,1089,1090,1100>>,
        <<104,116,116,112,115,58,47,47,119,119,119,46,115,98,101,114,98,97,110,107,46,114,117,47,114,117,
        47,112,101,114,115,111,110,47,115,101,99,117,114,105,116,121>>>>,
      \* moshennichestvo -> https://www.sberbank.ru/ru/person/security/fraud
      <<<<1084,1086,1096,1077,1085,1085,1080,1095,1077,1089,1090,1074,1086>>,
        <<104,116,116,112,115,58,47,47,119,119,119,46,115,98,101,114,98,97,110,107,46,114,117,47,114,117,
        47,112,101,114,115,111,110,47,115,101,99,117,114,105,116,121,47,102,114,97,117,100>>>>,
      \* otdelenie -> https://www.sberbank.ru/ru/person/branch
      <<<<1086,1090,1076,1077,1083,1077,1085,1080,1077>>,
        <<104,116,116,112,115,58,47,47,119,119,119,46,115,98,101,114,98,97,110,107,46,114,117,47,114,117,
        47,112,101,114,115,111,110,47,98,114,97,110,99,104>>>>,
      \* bankomat -> https://www.sberbank.ru/ru/person/atm
      <<<<1073,1072,1085,1082,1086,1084,1072,1090>>,
        <<104,116,116,112,115,58,47,47,119,119,119,46,115,98,101,114,98,97,110,107,46,114,117,47,114,117,
        47,112,101,114,115,111,110,47,97,116,109>>>>,
      \* tarif -> https://www.sberbank.ru/ru/person/tariffs
      <<<<1090,1072,1088,1080,1092>>,
        <<104,116,116,112,115,58,47,47,119,119,119,46,115,98,101,114,98,97,110,107,46,114,117,47,114,117,
        47,112,101,114,115,111,110,47,116,97,114,105,102,102,115>>>>,
      \* komissiya -> https://www.sberbank.ru/ru/person/tariffs
      <<<<1082,1086,1084,1080,1089,1089,1080,1103>>,
        <<104,116,116,112,115,58,47,47,119,119,119,46,115,98,101,114,98,97,110,107,46,114,117,47,114,117,
        47,112,101,114,115,111,110,47,116,97,114,105,102,102,115>>>>,
      \* faq -> https://www.sberbank.ru/ru/person/faq
      <<<<102,97,113>>,
        <<104,116,116,112,115,58,47,47,119,119,119,46,115,98,101,114,98,97,110,107,46,114,117,47,114,117,
        47,112,101,114,115,111,110,47,102,97,113>>>>,
      \* podderzhka -> https://www.sberbank.ru/ru/person/help
      <<<<1087,1086,1076,1076,1077,1088,1078,1082,1072>>,
        <<104,116,116,112,115,58,47,47,119,119,119,46,115,98,101,114,98,97,110,107,46,114,117,47,114,117,
        47,112,101,114,115,111,110,47,104,101,108,112>>>>,
      \* kontakty -> https://www.sberbank.ru/ru/person/contacts
      <<<<1082,1086,1085,1090,1072,1082,1090,1099>>,
        <<104,116,116,112,115,58,47,47,119,119,119,46,115,98,101,114,98,97,110,107,46,114,117,47,114,117,
        47,112,101,114,115,111,110,47,99,111,110,116,97,99,116,115>>>>
    >>

\* src/app.py:150
valid_domains ==
    {
      <<115,98,101,114,98,97,110,107,46,114,117>>,   \* sberbank.ru
      <<115,98,101,114,98,97,110,107,46,99,111,109>>,   \* sberbank.com
      <<115,98,101,114,46,114,117>>    \* sber.ru
    }

\* src/app.py:1181, U+1F517 is the link sign: "\n\n? **Poleznye ssylki:**\n"
LINKS_HEADER ==
    <<10,10,128279,32,42,42,1055,1086,1083,1077,1079,1085,1099,1077,32,1089,1089,1099,1083,1082,1080,
    58,42,42,10>>

\* src/app.py:1248, the test answer of debug_confidence without documents: "Informaciya ne najdena"
NO_DOCUMENTS_TEST_ANSWER ==
    <<1048,1085,1092,1086,1088,1084,1072,1094,1080,1103,32,1085,1077,32,1085,1072,1081,1076,1077,
    1085,1072>>
(***************************************************************************)
(* Document URLs                                                           *)
(***************************************************************************)

\* the classes a-zA-Z0-9 of the URL pattern
IsAsciiAlnum(c) ==
    \/ c >= 48 /\ c <= 57
    \/ c >= 65 /\ c <= 90
    \/ c >= 97 /\ c <= 122

\* regex class [-a-zA-Z0-9@:%._\+~#=]
IsHostChar(c) == IsAsciiAlnum(c) \/ c \in {45, 64, 58, 37, 46, 95, 43, 126, 35, 61}

\* regex class [a-zA-Z0-9()]
IsSuffixChar(c) == IsAsciiAlnum(c) \/ c \in {40, 41}

\* regex class [-a-zA-Z0-9()@:%_\+.~#?&//=]
IsTailChar(c) ==
    IsAsciiAlnum(c)
        \/ c \in {45, 40, 41, 64, 58, 37, 95, 43, 46, 126, 35, 63, 38, 47, 61}

\* the text p stands in t right after the first i characters
StartsAt(t, p, i) ==
    i + Len(p) <= Len(t) /\ \A j \in 1..Len(p) : t[i + j] = p[j]

\* str.endswith
EndsWith(s, p) == Len(p) <= Len(s) /\ StartsAt(s, p, Len(s) - Len(p))

\* regex \b between t[e] and t[e + 1], e >= 1: one of the two is in the
\* class \w and the other is not, or is the end of the text
WordBoundary(t, e) ==
    IsWordChar(t[e]) /= (e + 1 <= Len(t) /\ IsWordChar(t[e + 1]))

\* the ways  [host class]{1,256} \. [suffix class]{1,6} \b  matches from the
\* index s: the index d of the dot and the length n of the suffix
domain_matches(t, s) ==
    {x \in ((s + 1)..Len(t)) \X (1..6) :
        /\ x[1] - s <= 256
        /\ t[x[1]] = 46
        /\ \A k \in s..(x[1] - 1) : IsHostChar(t[k])
        /\ x[1] + x[2] <= Len(t)
        /\ \A k \in (x[1] + 1)..(x[1] + x[2]) : IsSuffixChar(t[k])
        /\ WordBoundary(t, x[1] + x[2])}

\* the match that greedy repetition with backtracking finds first: the last
\* dot, then the longest suffix
greedy_match(matches) ==
    CHOOSE x \in matches :
        \A y \in matches : y[1] < x[1] \/ (y[1] = x[1] /\ y[2] <= x[2])

\* the index of the last character of the domain, 0 when nothing matches
domain_end_of(matches) ==
    IF matches = {} THEN 0
    ELSE greedy_match(matches)[1] + greedy_match(matches)[2]

domain_end(t, s) == domain_end_of(domain_matches(t, s))

\* (?:www\.)? then the domain, h characters into the text: the optional
\* group "www." is taken when the rest matches after it
domain_end_after(t, h) ==
    IF StartsAt(t, <<119, 119, 119, 46>>, h) /\ domain_end(t, h + 5) > 0
    THEN domain_end(t, h + 5)
    ELSE domain_end(t, h + 1)

\* the number of characters before the end of  https?://  that starts after p
\* characters, -1 when it does not start there
after_scheme(t, p) ==
    IF StartsAt(t, <<104, 116, 116, 112, 58, 47, 47>>, p) THEN p + 7        \* http://
    ELSE IF StartsAt(t, <<104, 116, 116, 112, 115, 58, 47, 47>>, p) THEN p + 8  \* https://
    ELSE -1

\* the end of the longest run of tail characters after the index e
tail_end(t, e) ==
    CHOOSE r \in e..Len(t) :
        /\ \A k \in (e + 1)..r : IsTailChar(t[k])
        /\ (r = Len(t) \/ ~IsTailChar(t[r + 1]))

\* the index of the last character of the match of url_pattern whose scheme
\* ends after h characters, 0 when there is none (h < 0: no scheme)
url_end_from(t, h) ==
    IF h < 0 THEN 0
    ELSE IF domain_end_after(t, h) = 0 THEN 0
    ELSE tail_end(t, domain_end_after(t, h))

\* the end of the match at every offset of the text
url_ends(t) == [p \in 0..(Len(t) - 1) |-> url_end_from(t, after_scheme(t, p))]

\* re.findall: the matches from left to right, each search starting where the
\* last match ended
RECURSIVE urls_from(_, _, _)
url_and_rest(t, ends, p) ==
    <<SubSeq(t, p + 1, ends[p])>> \o urls_from(t, ends, ends[p])

urls_from(t, ends, from) ==
    IF \A p \in from..(Len(t) - 1) : ends[p] = 0 THEN <<>>
    ELSE url_and_rest(t, ends,
                      CHOOSE p \in from..(Len(t) - 1) :
                          ends[p] > 0 /\ \A q \in from..(p - 1) : ends[q] = 0)

\* extract_urls_from_text(text)
extract_urls_from_text(text) == urls_from(text, url_ends(text), 0)

\* Optional[str] None of a URL; a URL is never the empty text
NoUrl == <<>>

\* os.path.basename
basename(path) ==
    IF \A i \in 1..Len(path) : path[i] /= 47 THEN path
    ELSE SubSeq(path,
                1 + CHOOSE i \in 1..Len(path) :
                        path[i] = 47 /\ \A k \in (i + 1)..Len(path) : path[k] /= 47,
                Len(path))

\* os.path.splitext(name)[0]: the name up to its last dot, when a character
\* other than a dot stands before that dot
splitext_root(name) ==
    IF \E d \in 1..Len(name) :
           name[d] = 46 /\ \E k \in 1..(d - 1) : name[k] /= 46
    THEN SubSeq(name, 1,
                (CHOOSE d \in 1..Len(name) :
                     name[d] = 46 /\ \A k \in (d + 1)..Len(name) : name[k] /= 46) - 1)
    ELSE name

\* the URL of the first section of SBER_SITE_SECTIONS whose keyword is in the
\* name of the html file
section_url(html_name) ==
    IF \A i \in 1..Len(SBER_SITE_SECTIONS) :
           ~Contains(html_name, SBER_SITE_SECTIONS[i][1])
    THEN NoUrl
    ELSE SBER_SITE_SECTIONS[
             CHOOSE i \in 1..Len(SBER_SITE_SECTIONS) :
                 /\ Contains(html_name, SBER_SITE_SECTIONS[i][1])
                 /\ \A k \in 1..(i - 1) :
                        ~Contains(html_name, SBER_SITE_SECTIONS[k][1])][2]

\* the URL of a document given the sberbank URLs of its content
document_url(source_path, sber_urls) ==
    IF sber_urls /= <<>> THEN sber_urls[1]
    ELSE IF EndsWith(source_path, <<46, 104, 116, 109, 108>>)     \* .html
    THEN section_url(splitext_root(lower(basename(source_path))))
    ELSE NoUrl

\* generate_document_url(source_path, content): the first URL of the content
\* with 'sberbank' in it, or the section of the html file
generate_document_url(source_path, content) ==
    IF source_path = <<>> THEN NoUrl
    ELSE document_url(source_path,
                      SelectSeq(extract_urls_from_text(Prefix(content, 1000)),
                                LAMBDA url :
                                    Contains(url, <<115, 98, 101, 114, 98, 97, 110, 107>>)))

\* is_valid_sber_url(url)
is_valid_sber_url(url) == url /= NoUrl /\ ContainsAny(url, valid_domains)


(***************************************************************************)
(* Answers of POST /ask                                                    *)
(***************************************************************************)

\* Answer(...) of the two branches that return before an answer is drafted:
\* the tier and the text come from generate_low_confidence_response, the
\* quoted reason joins escalation_reason and the reason of
\* get_escalation_level
short_circuit_answer(priority, confidence, interpretation, factors, escalation_reason, judge_reason) ==
    [answer |-> generate_low_confidence_response(
                    priority, confidence,
                    <<escalation_reason,
                      get_escalation_level(priority, confidence)[2]>>)[1],
     sources |-> <<>>,
     priority |-> lower(priority),
     route_to |-> generate_low_confidence_response(
                      priority, confidence,
                      <<escalation_reason,
                        get_escalation_level(priority, confidence)[2]>>)[2],
     judge_reason |-> <<judge_reason, escalation_reason>>,
     confidence |-> confidence,
     confidence_details |-> [factors |-> factors,
                             interpretation |-> interpretation],
     confidence_interpretation |-> interpretation,
     confidence_below_threshold |-> TRUE]

\* a variant of no_documents_answer with the confidence of the branch
\* "no relevant documents"
no_documents_answer_with_gate_floor(priority) ==
    short_circuit_answer(priority, 200,
                         [base |-> "very low (no documents)",
                          important |-> FALSE],
                         [no_documents |-> TRUE],
                         "not found in the knowledge base",
                         "documents not found")

\* Answer(...) of the branch "no documents", lines 1023-1052
no_documents_answer(priority) ==
    short_circuit_answer(priority, 100,
                         [base |-> "very low (no documents)",
                          important |-> FALSE],
                         [no_documents |-> TRUE],
                         "not found in the knowledge base",
                         "documents not found")

\* a variant of no_relevant_documents_answer that returns the Answer of the
\* branch "no documents"
no_relevant_documents_answer_as_no_documents(priority) ==
    no_documents_answer(priority)

\* Answer(...) of the branch "no relevant documents", lines 1076-1104
no_relevant_documents_answer(priority) ==
    short_circuit_answer(priority, 200,
                         [base |-> "very low (no relevant documents)",
                          important |-> FALSE],
                         [no_relevant_documents |-> TRUE],
                         "no relevant information for the question",
                         "not enough relevant documents")

\* Answer(...) of the branch "low confidence", lines 1134-1155
low_confidence_answer(priority, assessment, escalation_reason) ==
    LET level  == get_escalation_level(priority, assessment.score)
        script == generate_low_confidence_response(
                      priority, assessment.score, escalation_reason)
    IN  [answer |-> script[1],
         sources |-> <<>>,
         priority |-> lower(priority),
         route_to |-> script[2],
         judge_reason |-> <<"low confidence in the answer", escalation_reason>>,
         confidence |-> assessment.score,
         confidence_details |-> assessment.details,
         confidence_interpretation |-> assessment.interpretation,
         confidence_below_threshold |-> TRUE]

\* a variant of source_of that takes the URL without the check of its domain
source_of_unchecked(doc, score, doc_url) ==
    [source |-> IF doc.metadata.type = "pdf" THEN "official document"
                ELSE IF doc.metadata.type = "html" THEN "site information"
                ELSE "knowledge base",
     snippet |-> IF Len(doc.page_content) > 300
                 THEN strip(Prefix(doc.page_content, 300)) \o <<46, 46, 46>>
                 ELSE strip(Prefix(doc.page_content, 300)),
     relevance |-> 1000 - score,
     url |-> doc_url,
     document_type |-> doc.metadata.type]

\* Source(...) of one document given its URL, lines 824-846
source_of(doc, score, doc_url) ==
    [source |-> IF doc.metadata.type = "pdf" THEN "official document"
                ELSE IF doc.metadata.type = "html" THEN "site information"
                ELSE "knowledge base",
     snippet |-> IF Len(doc.page_content) > 300
                 THEN strip(Prefix(doc.page_content, 300)) \o <<46, 46, 46>>
                 ELSE strip(Prefix(doc.page_content, 300)),
     relevance |-> 1000 - score,
     url |-> IF is_valid_sber_url(doc_url) THEN doc_url ELSE NoUrl,
     document_type |-> doc.metadata.type]

\* format_sources(docs_with_scores, max_sources=3)
format_sources(docs_with_scores) ==
    [i \in 1..Len(Prefix(docs_with_scores, 3)) |->
        source_of(docs_with_scores[i][1], docs_with_scores[i][2],
                  generate_document_url(docs_with_scores[i][1].metadata.source,
                                        docs_with_scores[i][1].page_content))]

\* one line of the links, "i. url\n", for the i-th of the first three URLs
link_line(urls, i) ==
    IF i <= Len(urls) THEN <<48 + i, 46, 32>> \o urls[i].url \o <<10>>
    ELSE <<>>

\* the answer with the links of the sources that have a URL, lines 1178-1184
with_links(answer_text, urls) ==
    IF urls = <<>> THEN answer_text
    ELSE answer_text \o LINKS_HEADER
             \o link_line(urls, 1) \o link_line(urls, 2) \o link_line(urls, 3)

\* Answer(...) of the branch "answered", lines 1187-1209
answered(answer_text, sources, assessment, judge_result, override) ==
    [answer |-> [kind |-> "drafted",
                 text |-> with_links(answer_text, SelectSeq(sources, LAMBDA source : source.url /= NoUrl))],
     sources |-> sources,
     priority |-> judge_result["priority"],
     route_to |-> IF override THEN "L3" ELSE judge_result["route_to"],
     judge_reason |-> IF override
                      THEN "high priority needs a specialist check"
                      ELSE judge_result["reason"],
     confidence |-> assessment.score,
     confidence_details |-> assessment.details,
     confidence_interpretation |-> assessment.interpretation,
     confidence_below_threshold |-> FALSE]

\* Answer(...): the model class validates the fields it is given.  Of the
\* fields that ask fills from the judge output, judge_reason is declared
\* str: a value that is not a str (JSON null) is a validation error, which
\* ask does not catch and the service answers with the status 500.
Answer(fields) ==
    IF fields.judge_reason = None THEN [status |-> 500] ELSE fields

\* the end of ask for an answer above the threshold, lines 1169-1209
final_answer(priority, answer_text, used_docs, assessment, judge_result) ==
    Answer(answered(answer_text,
             IF judge_result["helped"] /\ used_docs /= <<>>
             THEN format_sources(used_docs) ELSE <<>>,
             assessment, judge_result,
             judge_result["priority"] = s_high /\ ~Truthy(judge_result["route_to"])))
\* a question with a term of the tariff document: "Kakoj tarif"
Q_tariff ==
    <<1050,1072,1082,1086,1081,32,1090,1072,1088,1080,1092>>

\* a question of stop words only: "Kak i chto"
Q_stop ==
    <<1050,1072,1082,32,1080,32,1095,1090,1086>>

\* questions posted to the service: with and without a critical phrase, of
\* every keyword priority, after strip() one of two characters, an empty
\* one and one of three characters, and one with a word of both keyword
\* tables
Questions ==
    {
      Q_tariff,
      Q_stop,
      <<1059,32,1084,1077,1085,1103,32,1089,1087,1080,1089,1072,1083,1080,32,1076,1077,1085,1100,
        1075,1080,32,1073,1077,1079,32,1088,1072,1079,1088,1077,1096,1077,1085,1080,1103>>,   \* "U menya spisali den'gi bez razresheniya"
      <<1057,32,1084,1077,1085,1103,32,1089,1087,1080,1089,1072,1083,1080,32,53,48,48,32,1088,1091,
        1073,1083,1077,1081>>,   \* "S menya spisali 500 rublej"
      <<1053,1077,32,1088,1072,1073,1086,1090,1072,1077,1090,32,1087,1088,1080,1083,1086,1078,1077,
        1085,1080,1077>>,   \* "Ne rabotaet prilozhenie"
      <<32,1076,1072,32>>,   \* " da "
      <<32,32,10>>,   \* "  \n"
      <<32,1055,1048,1053,32>>,   \* " PIN "
      <<1047,1072,1073,1099,1083,32,1087,1072,1088,1086,1083,1100>>   \* "Zabyl parol'"
    }

\* what the priority LLM call does: it raises, or returns a label in any
\* case and with whitespace, or a text that is no label
PriorityReplies ==
    {
      Raises,
      Returns(<<72,73,71,72>>),   \* "HIGH"
      Returns(<<32,109,101,100,105,117,109,10>>),   \* " medium\n"
      Returns(<<76,111,119>>),   \* "Low"
      Returns(<<80,114,105,111,114,105,116,121,58,32,72,73,71,72>>)   \* "Priority: HIGH"
    }

\* an output of the paraphrase LLM call with a heading, a short line and a repeated paraphrase: "Varianty:\n1. Skol'ko stoit obsluzhivanie\n- da\n2) Skol'ko stoit obsluzhivanie\n"
E_one ==
    <<1042,1072,1088,1080,1072,1085,1090,1099,58,10,49,46,32,1057,1082,1086,1083,1100,1082,1086,32,
    1089,1090,1086,1080,1090,32,1086,1073,1089,1083,1091,1078,1080,1074,1072,1085,1080,1077,10,45,32,
    1076,1072,10,50,41,32,1057,1082,1086,1083,1100,1082,1086,32,1089,1090,1086,1080,1090,32,1086,
    1073,1089,1083,1091,1078,1080,1074,1072,1085,1080,1077,10>>

\* what the paraphrase LLM call does
ExpansionReplies ==
    {
      Raises,
      Returns(E_one),
      Returns(<<10,32,10>>)   \* "\n \n"
    }

\* what the paraphrase LLM call has done before the lookup loop: one, two,
\* three and, with more than three paraphrases, four queries; the last
\* output repeats the question about the tariff as its first paraphrase
RetrievalExpansions ==
    {
      Raises,
      Returns(E_one),
      Returns(<<49,46,32,1057,1082,1086,1083,1100,1082,1086,32,1089,1090,1086,1080,1090,32,1086,1073,1089,
                1083,1091,1078,1080,1074,1072,1085,1080,1077,10,50,46,32,1062,1077,1085,1072,32,1086,1073,
                1089,1083,1091,1078,1080,1074,1072,1085,1080,1103,32,1082,1072,1088,1090,1099,10>>),   \* "1. Skol'ko stoit obsluzhivanie\n2. Cena obsluzhivaniya karty\n"
      Returns(<<49,46,32,1057,1082,1086,1083,1100,1082,1086,32,1089,1090,1086,1080,1090,32,1086,1073,1089,
                1083,1091,1078,1080,1074,1072,1085,1080,1077,10,50,46,32,1062,1077,1085,1072,32,1086,1073,
                1089,1083,1091,1078,1080,1074,1072,1085,1080,1103,32,1082,1072,1088,1090,1099,10,51,46,32,
                1057,1090,1086,1080,1084,1086,1089,1090,1100,32,1075,1086,1076,1086,1074,1086,1075,1086,32,
                1086,1073,1089,1083,1091,1078,1080,1074,1072,1085,1080,1103,10,52,46,32,1055,1083,1072,1090,
                1072,32,1079,1072,32,1082,1072,1088,1090,1091,32,1074,32,1075,1086,1076,10>>),   \* "1. Skol'ko stoit obsluzhivanie\n2. Cena obsluzhivaniya karty\n3. Stoimost' godovogo obsluzhivaniya\n4. Plata za kartu v god\n"
      Returns(<<49,46,32,1050,1072,1082,1086,1081,32,1090,1072,1088,1080,1092,10,50,46,32,1062,1077,1085,1072,
                32,1086,1073,1089,1083,1091,1078,1080,1074,1072,1085,1080,1103,32,1082,1072,1088,1090,1099,10>>)   \* "1. Kakoj tarif\n2. Cena obsluzhivaniya karty\n"
    }

\* the source path of a document: "data/raw/faq.html"
SRC_faq ==
    <<100,97,116,97,47,114,97,119,47,102,97,113,46,104,116,109,108>>

\* the source path of a document: "data/raw/tarif.pdf"
SRC_pdf ==
    <<100,97,116,97,47,114,97,119,47,116,97,114,105,102,46,112,100,102>>

\* a sentence to repeat in the long documents: "Obschie usloviya obsluzhivaniya. "
FILLER ==
    <<1054,1073,1097,1080,1077,32,1091,1089,1083,1086,1074,1080,1103,32,1086,1073,1089,1083,1091,
    1078,1080,1074,1072,1085,1080,1103,46,32>>

\* a document of the index: "Tarif na obsluzhivanie karty 150 rublej v god."
D_tariff ==
    [page_content |->
        <<1058,1072,1088,1080,1092,32,1085,1072,32,1086,1073,1089,1083,1091,1078,1080,1074,1072,1085,
        1080,1077,32,1082,1072,1088,1090,1099,32,49,53,48,32,1088,1091,1073,1083,1077,1081,32,1074,
        32,1075,1086,1076,46>>,
     metadata |-> [source |-> SRC_pdf, type |-> "pdf"]]

\* a document of the index with a URL in its content: "Esli ne rabotaet prilozhenie, obnovite ego. https://www.sberbank.ru/ru/person/sberbankonline"
D_app ==
    [page_content |->
        <<1045,1089,1083,1080,32,1085,1077,32,1088,1072,1073,1086,1090,1072,1077,1090,32,1087,1088,
        1080,1083,1086,1078,1077,1085,1080,1077,44,32,1086,1073,1085,1086,1074,1080,1090,1077,32,
        1077,1075,1086,46,32,104,116,116,112,115,58,47,47,119,119,119,46,115,98,101,114,98,97,110,
        107,46,114,117,47,114,117,47,112,101,114,115,111,110,47,115,98,101,114,98,97,110,107,111,110,
        108,105,110,101>>,
     metadata |-> [source |-> SRC_faq, type |-> "html"]]

\* a document of the index from data/raw/bezopasnost.html: "Pri spisanii deneg bez razresheniya zablokirujte kartu i pozvonite 900."
D_security ==
    [page_content |->
        <<1055,1088,1080,32,1089,1087,1080,1089,1072,1085,1080,1080,32,1076,1077,1085,1077,1075,32,
        1073,1077,1079,32,1088,1072,1079,1088,1077,1096,1077,1085,1080,1103,32,1079,1072,1073,1083,
        1086,1082,1080,1088,1091,1081,1090,1077,32,1082,1072,1088,1090,1091,32,1080,32,1087,1086,
        1079,1074,1086,1085,1080,1090,1077,32,57,48,48,46>>,
     metadata |-> [source |-> <<100,97,116,97,47,114,97,119,47,98,101,122,111,112,97,115,
                              110,111,115,116,46,104,116,109,108>>, type |-> "html"]]

\* a document of the index: "Rezhim raboty otdelenij: s 9 do 18."
D_hours ==
    [page_content |->
        <<1056,1077,1078,1080,1084,32,1088,1072,1073,1086,1090,1099,32,1086,1090,1076,1077,1083,1077,
        1085,1080,1081,58,32,1089,32,57,32,1076,1086,32,49,56,46>>,
     metadata |-> [source |-> SRC_faq, type |-> "document"]]

\* two documents that differ after their first 200 characters only: the
\* filler eight times, then "Tarif 150 rublej."
D_long_a ==
    [page_content |->
        Repeat(FILLER, 8) \o <<1058,1072,1088,1080,1092,32,49,53,48,32,1088,1091,1073,1083,1077,1081,46>>,
     metadata |-> [source |-> SRC_pdf, type |-> "pdf"]]

\* the filler eight times, then "Tarif 200 rublej."
D_long_b ==
    [page_content |->
        Repeat(FILLER, 8) \o <<1058,1072,1088,1080,1092,32,50,48,48,32,1088,1091,1073,1083,1077,1081,46>>,
     metadata |-> [source |-> SRC_pdf, type |-> "pdf"]]

\* what the answer-drafting LLM call does: it raises, or returns an answer
\* with numbered steps and a link, a full answer, a refusal, a refusal with
\* steps, a plain sentence, an ordinal word, or whitespace only
DraftReplies ==
    {
      Raises,
      Returns(<<49,46,32,1054,1090,1082,1088,1086,1081,1090,1077,32,1087,1088,1080,1083,1086,1078,1077,
                1085,1080,1077,46,32,50,46,32,1053,1072,1078,1084,1080,1090,1077,32,1058,1072,1088,1080,1092,
                1099,46,32,1055,1086,1076,1088,1086,1073,1085,1077,1077,58,32,104,116,116,112,115,58,47,47,
                119,119,119,46,115,98,101,114,98,97,110,107,46,114,117>>),   \* "1. Otkrojte prilozhenie. 2. Nazhmite Tarify. Podrobnee: https://www.sberbank.ru"
      Returns(<<49,46,32,1058,1072,1088,1080,1092,32,1085,1072,32,1086,1073,1089,1083,1091,1078,1080,1074,
                1072,1085,1080,1077,32,1082,1072,1088,1090,1099,58,32,49,53,48,32,1088,1091,1073,1083,1077,
                1081,32,1074,32,1075,1086,1076,46>>),   \* "1. Tarif na obsluzhivanie karty: 150 rublej v god."
      Returns(<<1050,32,1089,1086,1078,1072,1083,1077,1085,1080,1102,44,32,1080,1085,1092,1086,1088,1084,
                1072,1094,1080,1080,32,1085,1077,1090,46>>),   \* "K sozhaleniyu, informacii net."
      Returns(<<1048,1085,1092,1086,1088,1084,1072,1094,1080,1080,32,1085,1077,1090,46,32,49,46,32,1055,
                1086,1079,1074,1086,1085,1080,1090,1077,32,57,48,48,46,32,50,46,32,1054,1073,1088,1072,1090,
                1080,1090,1077,1089,1100,32,1074,32,1086,1090,1076,1077,1083,1077,1085,1080,1077,46>>),   \* "Informacii net. 1. Pozvonite 900. 2. Obratites' v otdelenie."
      Returns(<<1058,1072,1088,1080,1092,32,1089,1086,1089,1090,1072,1074,1083,1103,1077,1090,32,1089,1090,
                1086,32,1087,1103,1090,1100,1076,1077,1089,1103,1090,32,1088,1091,1073,1083,1077,1081,32,
                1074,32,1075,1086,1076>>),   \* "Tarif sostavlyaet sto pyat'desyat rublej v god"
      Returns(<<1055,1077,1088,1074,1099,1081,32,1096,1072,1075,32,45,32,1086,1073,1085,1086,1074,1080,
                1090,1077,32,1087,1088,1080,1083,1086,1078,1077,1085,1080,1077>>),   \* "Pervyj shag - obnovite prilozhenie"
      Returns(<<32,10>>)   \* " \n"
    }

(***************************************************************************)
(* Inputs of the model                                                     *)
(***************************************************************************)

\* one index lookup raises
LookupRaises == [raises |-> TRUE]

\* one index lookup returns hits, a hit being the pair of a document and
\* its distance in thousandths
LookupReturns(hits) == [raises |-> FALSE, hits |-> hits]

\* what one index lookup does
IndexReplies ==
    {LookupRaises,
     LookupReturns(<<>>),
     LookupReturns(<< <<D_tariff, 0>> >>),
     LookupReturns(<< <<D_security, 900>>, <<D_tariff, 350>> >>),
     LookupReturns(<< <<D_app, 300>> >>),
     LookupReturns(<< <<D_hours, 3000>>, <<D_security, 970>> >>),
     \* the distance at which the fixed error text scores 0.400
     LookupReturns(<< <<D_security, 832>> >>)}

\* a dict with the key absent or bound to one of the values
Optional(key, values) == {<<>>} \cup {key :> v : v \in values}

\* what the judge call does
JudgeReplies ==
    {JudgeRaises, [kind |-> "not_dict"]} \cup
    {JudgeDict(h @@ p @@ r) :
        h \in Optional("helped", BOOLEAN),
        p \in Optional("priority", {s_low, s_medium, s_high}),
        r \in Optional("route_to", {None, "L1", "L2", "L3"})} \cup
    {JudgeDict(("reason" :> "reason of the judge") @@ r) :
        r \in Optional("route_to", {None, "L2"})} \cup
    \* outputs that leave the JSON format of the prompt: a null reason, a
    \* tier and a priority label that the prompt does not list
    {JudgeDict("reason" :> None),
     JudgeDict("route_to" :> "L4"),
     JudgeDict("priority" :> s_HIGH)}

(***************************************************************************)
(* State                                                                   *)
(***************************************************************************)

VARIABLES
    pc,                    \* position of the request in ask
    question,              \* q.question.strip()
    priority,              \* result of detect_priority
    priority_path,         \* "llm" or "keywords": which path classified
    expanded_queries,      \* result of expand_query
    query_index,           \* position of the lookup loop
    all_docs_with_scores,  \* pooled hits
    sorted_docs,           \* consolidated DocumentSet
    used_docs,             \* hits accepted by the Relevance Gate
    context,               \* '\n\n'.join(context_parts)
    answer_text,           \* drafted answer
    assessment,            \* result of calculate_confidence
    judge_result,          \* result of judge_answer
    path,                  \* branch of ask that returned
    response,              \* what ask returned
    metrics_log,           \* lines of confidence_metrics.log
    debug_response,        \* what debug_confidence returned
    recording,             \* whether the calls are recorded: they are for
                           \* the requests that are repeated afterwards
    calls,                 \* recorded external calls and their replies
    earlier                \* the request served before, when it is repeated

vars == <<pc, question, priority, priority_path, expanded_queries,
          query_index, all_docs_with_scores, sorted_docs, used_docs, context,
          answer_text, assessment, judge_result, path, response, metrics_log,
          debug_response, hash_seed, recording, calls, earlier>>

NoAssessment == [score |-> 0, details |-> [factors |-> <<>>],
                 interpretation |-> [base |-> "", important |-> FALSE]]

NoResponse == [status |-> 0]

Init ==
    /\ pc = "idle"
    /\ question = <<>>
    /\ priority = <<>>
    /\ priority_path = ""
    /\ expanded_queries = <<>>
    /\ query_index = 0
    /\ all_docs_with_scores = <<>>
    /\ sorted_docs = <<>>
    /\ used_docs = <<>>
    /\ context = <<>>
    /\ answer_text = <<>>
    /\ assessment = NoAssessment
    /\ judge_result = <<>>
    /\ path = ""
    /\ response = NoResponse
    /\ metrics_log = <<>>
    /\ debug_response = NoResponse
    /\ hash_seed = 0
    /\ recording = FALSE
    /\ calls = <<>>
    /\ earlier = <<>>

(***************************************************************************)
(* POST /ask, one action per external call it waits for                    *)
(***************************************************************************)

\* a variant of Ask that accepts a question of two characters
Ask_two_characters(q) ==
    /\ pc = "idle"
    /\ question' = strip(q)
    /\ IF Len(question') < 2
       THEN /\ pc' = "rejected"
            /\ response' = [status |-> 400]
       ELSE /\ pc' = "priority"
            /\ UNCHANGED response
    /\ UNCHANGED <<debug_response, hash_seed, recording, calls, earlier>>
    /\ UNCHANGED <<priority, priority_path, expanded_queries, query_index,
                   all_docs_with_scores, sorted_docs, used_docs, context,
                   answer_text, assessment, judge_result, path, metrics_log>>

\* lines 985-991: the request arrives and is validated
Ask(q) ==
    /\ pc = "idle"
    /\ question' = strip(q)
    /\ IF Len(question') < 3
       THEN /\ pc' = "rejected"
            /\ response' = [status |-> 400]
       ELSE /\ pc' = "priority"
            /\ UNCHANGED response
    /\ UNCHANGED <<debug_response, hash_seed, recording, calls, earlier>>
    /\ UNCHANGED <<priority, priority_path, expanded_queries, query_index,
                   all_docs_with_scores, sorted_docs, used_docs, context,
                   answer_text, assessment, judge_result, path, metrics_log>>

\* line 996: detect_priority returns
PriorityReply(reply) ==
    /\ pc = "priority"
    /\ priority' = detect_priority(reply, question)
    /\ priority_path' = IF llm_label_valid(reply) THEN "llm" ELSE "keywords"
    /\ pc' = "expand"
    /\ calls' = IF recording THEN Append(calls, [to |-> "priority", reply |-> reply]) ELSE calls
    /\ UNCHANGED <<debug_response, hash_seed, recording, earlier>>
    /\ UNCHANGED <<question, expanded_queries, query_index,
                   all_docs_with_scores, sorted_docs, used_docs, context,
                   answer_text, assessment, judge_result, path, response,
                   metrics_log>>

\* line 1000: expand_query returns
ExpansionReply(reply) ==
    /\ pc = "expand"
    /\ expanded_queries' = expand_query(reply, question)
    /\ query_index' = 1
    /\ pc' = "search"
    /\ calls' = IF recording THEN Append(calls, [to |-> "paraphrase", reply |-> reply]) ELSE calls
    /\ UNCHANGED <<debug_response, hash_seed, recording, earlier>>
    /\ UNCHANGED <<question, priority, priority_path, all_docs_with_scores,
                   sorted_docs, used_docs, context, answer_text, assessment,
                   judge_result, path, response, metrics_log>>

\* a variant of Retrieved that fails the request without documents
Retrieved_failing_without_documents(docs, used) ==
    /\ sorted_docs' = docs
    /\ used_docs' = used
    /\ IF used = <<>>
       THEN /\ response' = [status |-> 500]
            /\ path' = "error"
            /\ pc' = "failed"
            /\ UNCHANGED context
       ELSE /\ context' = join(<<10, 10>>, contents_of(used))
            /\ pc' = "draft"
            /\ UNCHANGED <<path, response>>

\* lines 1023-1104: the consolidated documents are gated; without documents
\* or without accepted documents the request is answered by escalation
Retrieved(docs, used) ==
    /\ sorted_docs' = docs
    /\ IF docs = <<>>
       THEN /\ response' = no_documents_answer(priority)
            /\ path' = "no_documents"
            /\ pc' = "done"
            /\ UNCHANGED <<used_docs, context>>
       ELSE /\ used_docs' = used
            /\ IF used = <<>>
               THEN /\ response' = no_relevant_documents_answer(priority)
                    /\ path' = "no_relevant_documents"
                    /\ pc' = "done"
                    /\ UNCHANGED context
               ELSE /\ context' = join(<<10, 10>>, contents_of(used))
                    /\ pc' = "draft"
                    /\ UNCHANGED <<path, response>>

\* lines 1005-1104: one index lookup returns; after the last one the pool is
\* consolidated, gated and, when nothing is left, answered by escalation
SearchReply(reply) ==
    /\ pc = "search"
    /\ all_docs_with_scores' = IF reply.raises THEN all_docs_with_scores
                               ELSE all_docs_with_scores \o reply.hits
    /\ IF query_index < Len(expanded_queries)
       THEN /\ query_index' = query_index + 1
            /\ UNCHANGED <<pc, sorted_docs, used_docs, context, path, response>>
       ELSE /\ UNCHANGED query_index
            /\ \E docs \in {consolidate(all_docs_with_scores')} :
                   Retrieved(docs, relevance_gate(docs, question))
    /\ calls' = IF recording THEN Append(calls, [to |-> "index", reply |-> reply]) ELSE calls
    /\ UNCHANGED <<debug_response, hash_seed, recording, earlier>>
    /\ UNCHANGED <<question, priority, priority_path, expanded_queries,
                   answer_text, assessment, judge_result, metrics_log>>

\* log_confidence_metrics(question, confidence, details): the appended line
log_entry(q, confidence, details) ==
    [question |-> Prefix(q, 200),
     confidence |-> confidence,
     interpretation |-> details.interpretation]

\* lines 1110-1121: the drafting call returns or raises
DraftReply(reply) ==
    /\ pc = "draft"
    /\ answer_text' = IF reply.raises THEN ERROR_ANSWER ELSE strip(reply.text)
    /\ pc' = "score"
    \* the lookup loop and the pool are not read again
    /\ expanded_queries' = <<>>
    /\ query_index' = 0
    /\ all_docs_with_scores' = <<>>
    /\ sorted_docs' = <<>>
    /\ calls' = IF recording THEN Append(calls, [to |-> "draft", reply |-> reply]) ELSE calls
    /\ UNCHANGED <<debug_response, hash_seed, recording, earlier>>
    /\ UNCHANGED <<question, priority, priority_path, used_docs, context,
                   assessment, judge_result, path, response, metrics_log>>

\* a variant of Assessed that sends every drafted answer to the judge
Assessed_judging_every_answer(conf, escalation) ==
    /\ assessment' = conf
    /\ pc' = "judge"
    /\ UNCHANGED <<path, response>>

\* lines 1131-1155: a confidence below the threshold is answered by
\* escalation, any other goes to the judge
Assessed(conf, escalation) ==
    /\ assessment' = conf
    /\ IF escalation[1]
       THEN /\ response' = low_confidence_answer(priority, conf, escalation[2])
            /\ path' = "low_confidence"
            /\ pc' = "done"
       ELSE /\ pc' = "judge"
            /\ UNCHANGED <<path, response>>

\* lines 1124-1155: the confidence is computed and logged (the write of the
\* log line may fail), and a confidence below the threshold is answered by
\* escalation
Score ==
    /\ pc = "score"
    /\ \E conf \in {calculate_confidence(used_docs, question, answer_text,
                                         context, priority)} :
           /\ Assessed(conf, needs_immediate_escalation(conf.score, priority))
           /\ \E log_written \in BOOLEAN :
                  metrics_log' =
                      IF log_written
                      THEN Append(metrics_log,
                                  log_entry(question, conf.score, conf.details))
                      ELSE metrics_log
    /\ UNCHANGED <<debug_response, hash_seed, recording, calls, earlier>>
    /\ UNCHANGED <<question, priority, priority_path, expanded_queries,
                   query_index, all_docs_with_scores, sorted_docs, used_docs,
                   context, answer_text, judge_result>>

\* lines 1161-1209: the judge call returns or raises and the Answer is
\* built; an Answer that its model class rejects ends the request with an
\* unhandled exception
JudgeReply(reply) ==
    /\ pc = "judge"
    /\ judge_result' = judge_answer(reply, question, answer_text,
                                    Prefix(context, 1500), priority)
    /\ response' = final_answer(priority, answer_text, used_docs, assessment,
                                judge_result')
    /\ IF "answer" \in DOMAIN response'
       THEN path' = "answered" /\ pc' = "done"
       ELSE path' = "validation_error" /\ pc' = "failed"
    /\ calls' = IF recording THEN Append(calls, [to |-> "judge", reply |-> reply]) ELSE calls
    /\ UNCHANGED <<debug_response, hash_seed, recording, earlier>>
    /\ UNCHANGED <<question, priority, priority_path, expanded_queries,
                   query_index, all_docs_with_scores, sorted_docs, used_docs,
                   context, answer_text, assessment, metrics_log>>

(***************************************************************************)
(* GET /debug/confidence/{question}                                        *)
(***************************************************************************)

\* the dict that debug_confidence returns
debug_report(q, debug_priority, conf, docs_with_scores) ==
    [status |-> 200,
     question |-> q,
     priority |-> debug_priority,
     confidence |-> conf.score,
     interpretation |-> conf.interpretation,
     above_threshold |-> conf.score >= CONFIDENCE_THRESHOLD,
     details |-> conf.details,
     documents_found |-> Len(docs_with_scores)]

\* lines 1240-1255 of debug_confidence with the hits, the test answer and
\* the context
debug_assess(q, docs_with_scores, answer, debug_context, debug_priority) ==
    debug_report(q, debug_priority,
                 calculate_confidence(docs_with_scores, q, answer,
                                      debug_context, debug_priority),
                 docs_with_scores)

\* debug_confidence(question): the lookup with k=5, the drafting call when
\* there are hits, and the priority call; an exception of the lookup or of
\* the drafting call is answered with the status 500
DebugConfidence(q, index_reply, draft_reply, priority_reply) ==
    /\ pc = "idle"
    /\ pc' = "debugged"
    /\ debug_response' =
           IF index_reply.raises THEN [status |-> 500]
           ELSE IF index_reply.hits = <<>>
           THEN debug_assess(q, <<>>, NO_DOCUMENTS_TEST_ANSWER, <<>>,
                             detect_priority(priority_reply, q))
           ELSE IF draft_reply.raises THEN [status |-> 500]
           ELSE debug_assess(q, Prefix(index_reply.hits, 5), draft_reply.text,
                             join(<<10>>, contents_of(Prefix(index_reply.hits, 3))),
                             detect_priority(priority_reply, q))
    /\ calls' =
           IF ~recording THEN calls
           ELSE <<[to |-> "index", reply |-> index_reply]>>
                \o (IF ~index_reply.raises /\ index_reply.hits /= <<>>
                    THEN <<[to |-> "draft", reply |-> draft_reply]>> ELSE <<>>)
                \o (IF index_reply.raises
                       \/ (index_reply.hits /= <<>> /\ draft_reply.raises)
                    THEN <<>>
                    ELSE <<[to |-> "priority", reply |-> priority_reply]>>)
    /\ UNCHANGED <<question, priority, priority_path, expanded_queries,
                   query_index, all_docs_with_scores, sorted_docs, used_docs,
                   context, answer_text, assessment, judge_result, path,
                   response, metrics_log, hash_seed, recording, earlier>>

(***************************************************************************)
(* The service                                                             *)
(***************************************************************************)

Next ==
    \/ \E q \in Questions : Ask(q)
    \/ \E reply \in PriorityReplies : PriorityReply(reply)
    \/ \E reply \in ExpansionReplies : ExpansionReply(reply)
    \/ \E reply \in IndexReplies : SearchReply(reply)
    \/ \E reply \in DraftReplies : DraftReply(reply)
    \/ Score
    \/ \E reply \in JudgeReplies : JudgeReply(reply)
    \/ \E q \in Questions, index_reply \in IndexReplies,
          draft_reply \in DraftReplies, priority_reply \in PriorityReplies :
           DebugConfidence(q, index_reply, draft_reply, priority_reply)

Spec == Init /\ [][Next]_vars

(***************************************************************************)
(* The lookup loop of /ask on larger pools                                 *)
(***************************************************************************)

\* what one index lookup of the loop does
RetrievalReplies ==
    {LookupRaises,
     LookupReturns(<<>>),
     LookupReturns(<< <<D_long_a, 300>>, <<D_tariff, 200>> >>),
     LookupReturns(<< <<D_long_b, 100>> >>),
     LookupReturns(<< <<D_tariff, 400>>, <<D_long_b, 300>> >>),
     LookupReturns(<< <<D_hours, 100>>, <<D_long_a, 50>> >>),
     \* six documents with six fingerprints, the last a chunk of 998
     \* characters as the splitter of build_index.py cuts them: a digit, the
     \* filler 27 times and the content of the long document
     LookupReturns(<<
         <<D_tariff, 10>>, <<D_app, 20>>, <<D_security, 30>>, <<D_hours, 40>>,
         <<D_long_a, 50>>,
         <<[D_long_a EXCEPT !.page_content = <<49>> \o Repeat(FILLER, 27) \o @], 60>> >>),
     \* four chunks of 998 characters and a short document
     LookupReturns(<<
         <<[D_long_a EXCEPT !.page_content = <<49>> \o Repeat(FILLER, 27) \o @], 100>>,
         <<[D_long_a EXCEPT !.page_content = <<50>> \o Repeat(FILLER, 27) \o @], 200>>,
         <<[D_long_a EXCEPT !.page_content = <<51>> \o Repeat(FILLER, 27) \o @], 300>>,
         <<[D_long_a EXCEPT !.page_content = <<52>> \o Repeat(FILLER, 27) \o @], 400>>,
         <<D_tariff, 500>> >>)}

\* ask has classified the question by keywords and has expanded it: the
\* lookup loop starts, and its lookups are recorded
InitRetrieval ==
    /\ pc = "search"
    /\ question \in {Q_tariff, Q_stop}
    /\ priority = upper(get_question_priority_keywords(question))
    /\ priority_path = "keywords"
    /\ expanded_queries \in
           {expand_query(reply, question) : reply \in RetrievalExpansions}
    /\ calls = <<>>
    /\ query_index = 1
    /\ all_docs_with_scores = <<>>
    /\ sorted_docs = <<>>
    /\ used_docs = <<>>
    /\ context = <<>>
    /\ answer_text = <<>>
    /\ assessment = NoAssessment
    /\ judge_result = <<>>
    /\ path = ""
    /\ response = NoResponse
    /\ metrics_log = <<>>
    /\ debug_response = NoResponse
    /\ hash_seed = 0
    /\ recording = TRUE
    /\ earlier = <<>>

NextRetrieval == \E reply \in RetrievalReplies : SearchReply(reply)

SpecRetrieval == InitRetrieval /\ [][NextRetrieval]_vars

(***************************************************************************)
(* A request that is served again                                          *)
(***************************************************************************)

\* the first request has returned its Answer and the same question is posted
\* again, to the same interpreter or to one started anew with the salt
\* seed; the lines of confidence_metrics.log stay
Again(seed) ==
    /\ pc = "done"
    /\ earlier = <<>>
    /\ earlier' = <<[calls |-> calls, response |-> response]>>
    /\ hash_seed' = seed
    /\ calls' = <<>>
    /\ pc' = "priority"
    /\ priority' = <<>>
    /\ priority_path' = ""
    /\ expanded_queries' = <<>>
    /\ query_index' = 0
    /\ all_docs_with_scores' = <<>>
    /\ sorted_docs' = <<>>
    /\ used_docs' = <<>>
    /\ context' = <<>>
    /\ answer_text' = <<>>
    /\ assessment' = NoAssessment
    /\ judge_result' = <<>>
    /\ path' = ""
    /\ response' = NoResponse
    /\ UNCHANGED <<question, metrics_log, debug_response, recording>>

\* the service waits for a request whose calls are recorded
InitRepeat ==
    /\ pc = "idle"
    /\ question = <<>>
    /\ priority = <<>>
    /\ priority_path = ""
    /\ expanded_queries = <<>>
    /\ query_index = 0
    /\ all_docs_with_scores = <<>>
    /\ sorted_docs = <<>>
    /\ used_docs = <<>>
    /\ context = <<>>
    /\ answer_text = <<>>
    /\ assessment = NoAssessment
    /\ judge_result = <<>>
    /\ path = ""
    /\ response = NoResponse
    /\ metrics_log = <<>>
    /\ debug_response = NoResponse
    /\ hash_seed = 0
    /\ recording = TRUE
    /\ calls = <<>>
    /\ earlier = <<>>

\* the call that a repeated request makes is answered as the same call of
\* the first request was
SameReply(to, reply) ==
    IF earlier = <<>> THEN TRUE
    ELSE IF Len(calls) >= Len(earlier[1].calls) THEN FALSE
    ELSE IF earlier[1].calls[Len(calls) + 1].to /= to THEN FALSE
    ELSE earlier[1].calls[Len(calls) + 1].reply = reply

\* ask serves the question about the tariff and serves it again with the
\* same replies.  The index holds the tariff document, a document with the
\* URL of a partner site, a page of the site without a URL, and the two long
\* documents with one fingerprint; the paraphrase call raises, returns
\* nothing, an error object or one paraphrase; the drafted answers are an
\* ordinal sentence with a link and numbered steps with a link.
NextRepeat ==
    \/ Ask(Q_tariff)
    \/ \E reply \in {Raises, Returns(<<72,73,71,72>>)} :   \* "HIGH"
           SameReply("priority", reply) /\ PriorityReply(reply)
    \/ \E reply \in
           {Raises,
            Returns(<<>>),
            Returns(<<123,34,101,114,114,111,114,34,58,32,34,109,111,100,101,108,32,111,118,101,114,108,111,97,
                     100,101,100,34,125>>),   \* "{"error": "model overloaded"}"
            Returns(<<49,46,32,1057,1082,1086,1083,1100,1082,1086,32,1089,1090,1086,1080,1090,32,1086,1073,
                     1089,1083,1091,1078,1080,1074,1072,1085,1080,1077,10>>)} :   \* "1. Skol'ko stoit obsluzhivanie\n"
           SameReply("paraphrase", reply) /\ ExpansionReply(reply)
    \/ \E reply \in
           {LookupReturns(<< <<D_tariff, 80>> >>),
            LookupReturns(<<
                \* "Tarif partnera: https://sberbank-partner.net/tariff"
                <<[page_content |->
                      <<1058,1072,1088,1080,1092,32,1087,1072,1088,1090,1085,1077,1088,1072,58,32,104,116,116,
                      112,115,58,47,47,115,98,101,114,98,97,110,107,45,112,97,114,116,110,101,114,46,110,101,116,
                      47,116,97,114,105,102,102>>,
                   metadata |-> [source |-> SRC_faq, type |-> "html"]], 200>>,
                <<D_tariff, 300>> >>),
            LookupReturns(<<
                \* "Tarif na perevody ukazan na sajte."
                <<[page_content |->
                      <<1058,1072,1088,1080,1092,32,1085,1072,32,1087,1077,1088,1077,1074,1086,1076,1099,32,1091,
                      1082,1072,1079,1072,1085,32,1085,1072,32,1089,1072,1081,1090,1077,46>>,
                   metadata |-> [source |-> SRC_faq, type |-> "html"]], 100>>,
                <<D_long_a, 400>> >>),
            LookupReturns(<< <<D_long_b, 150>>, <<D_tariff, 0>> >>)} :
           SameReply("index", reply) /\ SearchReply(reply)
    \/ \E reply \in
           {Raises,
            \* "Pervyj tarif opisan na https://www.sberbank.ru"
            Returns(<<1055,1077,1088,1074,1099,1081,32,1090,1072,1088,1080,1092,32,1086,1087,1080,1089,1072,
                     1085,32,1085,1072,32,104,116,116,112,115,58,47,47,119,119,119,46,115,98,101,114,98,97,110,
                     107,46,114,117>>),
            \* "1. Otkrojte prilozhenie. 2. Nazhmite Tarify. Podrobnee: https://www.sberbank.ru"
            Returns(<<49,46,32,1054,1090,1082,1088,1086,1081,1090,1077,32,1087,1088,1080,1083,1086,1078,1077,
                     1085,1080,1077,46,32,50,46,32,1053,1072,1078,1084,1080,1090,1077,32,1058,1072,1088,1080,
                     1092,1099,46,32,1055,1086,1076,1088,1086,1073,1085,1077,1077,58,32,104,116,116,112,115,58,
                     47,47,119,119,119,46,115,98,101,114,98,97,110,107,46,114,117>>)} :
           SameReply("draft", reply) /\ DraftReply(reply)
    \/ Score
    \/ \E reply \in
           {JudgeRaises, [kind |-> "not_dict"], JudgeDict(<<>>),
            JudgeDict("route_to" :> "L2"),
            JudgeDict("helped" :> FALSE), JudgeDict("reason" :> None)} :
           SameReply("judge", reply) /\ JudgeReply(reply)
    \/ \E seed \in {1, 31} : Again(seed)

SpecRepeat == InitRepeat /\ [][NextRepeat]_vars

(***************************************************************************)
(* Properties                                                              *)
(***************************************************************************)

\* the branches of ask that answer by escalation
EscalationPaths == {"low_confidence", "no_documents", "no_relevant_documents"}

\* C1: every accepted request that the Priority Classifier gave the priority
\* HIGH is answered with route_to = L3, on every path of ask and for every
\* output of the judge
C1_HighIsRoutedToL3 ==
    (pc = "done" /\ priority = s_HIGH) => response.route_to = "L3"

\* the tier that the transition rule gives a priority
TierOf(p) == IF p = s_HIGH THEN "L3" ELSE IF p = s_MEDIUM THEN "L2" ELSE "L1"

\* the scripted fallback message of a priority
TemplateOf(p) ==
    IF p = s_HIGH THEN "L3 security specialists"
    ELSE IF p = s_MEDIUM THEN "L2 technical specialist"
    ELSE "L1 consultant"

\* C2: an Answer with a confidence below the threshold (the low-confidence
\* branch and both short-circuit branches) is routed by the priority that
\* detect_priority produced, L3 for HIGH, L2 for MEDIUM, L1 for LOW, and
\* its text is the scripted message of that priority
C2_EscalationFollowsPriority ==
    (pc = "done" /\ path \in EscalationPaths) =>
        /\ response.confidence < CONFIDENCE_THRESHOLD
        /\ response.route_to = TierOf(priority)
        /\ response.answer.kind = "scripted"
        /\ response.answer.template = TemplateOf(priority)

\* C3: a question that contains a safety-critical phrase gets the priority
\* HIGH from detect_priority on both classification paths, the LLM label
\* and the keyword classification
C3_CriticalPhraseIsHigh ==
    (pc = "expand" /\ ContainsAny(lower(question), critical_phrases)) =>
        priority = s_HIGH

\* calculate_confidence has assessed a drafted answer of ask
Scored == pc = "judge" \/ (pc = "done" /\ path \in {"low_confidence", "answered"})

\* C4: a drafted answer with a refusal phrase and a non-empty set of used
\* documents never gets an interpretation above "low" from
\* calculate_confidence: the score is below 0.40 and the label is low or
\* very low
C4_RefusalIsLowConfidence ==
    (/\ Scored
     /\ used_docs /= <<>>
     /\ ContainsAny(lower(answer_text), negative_phrases)) =>
        /\ assessment.score < 400
        /\ assessment.interpretation.base \in {"low", "very low"}

\* C5: every confidence that calculate_confidence returns and every
\* Answer.confidence of ask is in [0, 1] (0..1000 thousandths), for every
\* combination of distances, those above 1 included, and answer texts
C5_ConfidenceInUnitInterval ==
    /\ assessment.score \in 0..1000
    /\ pc = "done" => response.confidence \in 0..1000
    /\ debug_response.status = 200 => debug_response.confidence \in 0..1000

\* C5 happens: debug_confidence has scored hits whose distances are above 1,
\* so that the relevancies of the top documents sum to a negative number
C5_NegativeRelevancyScored ==
    /\ debug_response.status = 200
    /\ debug_response.documents_found > 0
    /\ debug_response.details.factors.top_documents_relevancy.sum < 0
    /\ debug_response.confidence = 0

\* the results of calculate_confidence for at least one document that the
\* state holds
Assessments ==
    (IF Scored THEN {assessment} ELSE {}) \cup
    (IF debug_response.status = 200 /\ debug_response.documents_found > 0
     THEN {[score |-> debug_response.confidence,
            details |-> debug_response.details]}
     ELSE {})

\* the denominator of the exact confidence of a breakdown
DenOf(factors) == ScoreDen * factors.context_alignment[2]

\* best relevancy x 0.3 + top-3 average x 0.2 + quality total x 0.35 +
\* alignment x 0.15 + the bonus of 0.1 when recorded, over DenOf(factors)
RecordedSum(factors) ==
      factors.context_alignment[2]
          * (  factors.best_document_relevancy * 1692
             + factors.top_documents_relevancy.sum
                   * (1128 \div factors.top_documents_relevancy.count)
             + factors.answer_quality.total_score * 7)
    + factors.context_alignment[1] * 8460
    + (IF factors.concrete_instructions_bonus
       THEN DenOf(factors) \div 10 ELSE 0)

\* the value n / den and the score in thousandths differ by 0.001 at most
Within001(n, den, score) ==
    /\ n - score * (den \div 1000) <= den \div 1000
    /\ score * (den \div 1000) - n <= den \div 1000

\* C6 as stated: the weighted sum of the recorded factors equals the final
\* score within 0.001
C6_SumReconstructsScore ==
    \A a \in Assessments :
        Within001(RecordedSum(a.details.factors), DenOf(a.details.factors),
                  a.score)

\* C6: for every result of calculate_confidence with at least one document
\* the final score equals, within 0.001, the weighted sum of the recorded
\* factors limited to the range [0, 1]
C6_ClampedSumReconstructsScore ==
    \A a \in Assessments :
        Within001(Clamp(RecordedSum(a.details.factors), 0,
                        DenOf(a.details.factors)),
                  DenOf(a.details.factors), a.score)

\* C6 happens: ask has scored an answer whose recorded factors sum to more
\* than 1
C6_SumAboveOne ==
    /\ Scored
    /\ RecordedSum(assessment.details.factors)
           > DenOf(assessment.details.factors)
    /\ assessment.score = 1000

\* the content fingerprint of a hit: the first 200 characters of its content
Fingerprint(hit) == Prefix(hit[1].page_content, 200)

\* the lookup loop of ask has ended and the pool is consolidated
Consolidated ==
    \/ pc = "draft"
    \/ pc = "done" /\ path \in {"no_documents", "no_relevant_documents"}

\* C7: after the consolidation no two entries of the DocumentSet share a
\* content fingerprint, and the entry kept for a fingerprint has the least
\* distance of all pooled hits with that fingerprint
C7_UniqueFingerprintsWithLeastScore ==
    Consolidated =>
        /\ \A i, j \in 1..Len(sorted_docs) :
               i /= j => Fingerprint(sorted_docs[i]) /= Fingerprint(sorted_docs[j])
        /\ \A i \in 1..Len(sorted_docs) :
               /\ \E n \in 1..Len(all_docs_with_scores) :
                      all_docs_with_scores[n] = sorted_docs[i]
               /\ \A n \in 1..Len(all_docs_with_scores) :
                      Fingerprint(all_docs_with_scores[n])
                          = Fingerprint(sorted_docs[i])
                      => sorted_docs[i][2] <= all_docs_with_scores[n][2]

\* C7 happens: the pool holds two different documents with one fingerprint
\* and different distances, the nearer one pooled first, beside a third
\* document
C7_DuplicatesPooled ==
    /\ Consolidated
    /\ Len(sorted_docs) >= 2
    /\ \E m, n \in 1..Len(all_docs_with_scores) :
           /\ m < n
           /\ Fingerprint(all_docs_with_scores[m])
                  = Fingerprint(all_docs_with_scores[n])
           /\ all_docs_with_scores[m][1] /= all_docs_with_scores[n][1]
           /\ all_docs_with_scores[m][2] < all_docs_with_scores[n][2]

\* C8: the consolidated DocumentSet is in ascending order of distance for
\* every pool, the empty pool and the pool of one hit included
C8_SortedAscending ==
    Consolidated =>
        \A i \in 1..(Len(sorted_docs) - 1) :
            sorted_docs[i][2] <= sorted_docs[i + 1][2]

\* C8 happens: hits arrived out of order and three documents are left
C8_UnorderedPool ==
    /\ Consolidated
    /\ Len(sorted_docs) >= 3
    /\ \E n \in 1..(Len(all_docs_with_scores) - 1) :
           all_docs_with_scores[n][2] > all_docs_with_scores[n + 1][2]

\* what ask returns for a priority when retrieval yields no document: the
\* tier, the answer text and the judge reason
ZeroDocumentOutcome(p) ==
    [route_to |-> "L1",
     answer |-> [kind |-> "scripted", template |-> "L1 consultant",
                 reason |-> <<"not found in the knowledge base",
                              [text |-> "information question needs clarification",
                               confidence |-> 100]>>],
     priority |-> lower(p)]

\* C9: when retrieval yields zero documents ask returns an Answer without
\* sources, with the fixed confidence 0.1 (not above 0.15), with a route
\* that is not None and with the scripted escalation text; tier and text
\* are a function of the priority alone
C9_ZeroDocumentsEscalate ==
    (pc = "done" /\ path = "no_documents") =>
        /\ sorted_docs = <<>>
        /\ response.sources = <<>>
        /\ response.confidence = 100
        /\ response.confidence <= 150
        /\ response.confidence_below_threshold
        /\ response.route_to /= None
        /\ response.answer.kind = "scripted"
        /\ [route_to |-> response.route_to,
            answer |-> response.answer,
            priority |-> response.priority] = ZeroDocumentOutcome(priority)

\* C9 happens: every lookup of a request came back empty or failed
C9_ZeroDocuments ==
    /\ pc = "done"
    /\ path = "no_documents"
    /\ all_docs_with_scores = <<>>
    /\ Len(expanded_queries) = 2

\* C10: when documents are retrieved and none passes the Relevance Gate ask
\* returns an Answer without sources, with a confidence not above 0.25 and
\* above the confidence of the zero-document case, and with a text that
\* differs from the zero-document text of the same priority
C10_NoRelevantDocumentsEscalate ==
    (pc = "done" /\ path = "no_relevant_documents") =>
        /\ sorted_docs /= <<>>
        /\ used_docs = <<>>
        /\ response.sources = <<>>
        /\ response.confidence <= 250
        /\ response.confidence > no_documents_answer(priority).confidence
        /\ response.answer /= no_documents_answer(priority).answer

\* C10 happens: documents were retrieved and the gate accepted none
C10_GateRejectsAll ==
    /\ pc = "done"
    /\ path = "no_relevant_documents"
    /\ Len(sorted_docs) >= 2

(***************************************************************************)
(* Determinism of /ask                                                     *)
(***************************************************************************)

\* C11: a question that is served again, with the same replies of the
\* priority, paraphrase, index, drafting and judge calls, is answered with
\* the same answer text, confidence, priority, route_to and sources,
\* whatever the salt of hash() in the serving interpreter is.
C11_RepeatedRequestSameAnswer ==
    (pc = "done" /\ Len(earlier) = 1) =>
        /\ calls = earlier[1].calls
        /\ response.answer = earlier[1].response.answer
        /\ response.confidence = earlier[1].response.confidence
        /\ response.priority = earlier[1].response.priority
        /\ response.route_to = earlier[1].response.route_to
        /\ response.sources = earlier[1].response.sources

\* C11 happens: the question was answered from two or more deduplicated
\* documents, and answered again by an interpreter with another salt
C11_AnsweredAgainWithOtherSalt ==
    /\ pc = "done"
    /\ Len(earlier) = 1
    /\ hash_seed /= 0
    /\ path = "answered"
    /\ Len(earlier[1].calls) >= 6
    /\ Len(response.sources) >= 2

(***************************************************************************)
(* Failures of the collaborators                                           *)
(***************************************************************************)

\* C12: a request that passed the validation ends with an Answer, whatever
\* the priority, paraphrase, index, drafting and judge calls and the write
\* of the log line do: ask never ends with an error.
C12_AcceptedRequestReturnsAnswer ==
    /\ pc /= "failed"
    /\ pc = "done" => "answer" \in DOMAIN response

(***************************************************************************)
(* Validation of the question                                              *)
(***************************************************************************)

\* C13: the request is rejected with the status 400 exactly when the
\* stripped question has fewer than three characters (none included), and
\* a rejected request has made no call: the priority, the queries, the pool,
\* the drafted answer, the judge result and the log are as they were before
\* the request.
C13_RejectedExactlyWhenShort ==
    /\ pc = "rejected" =>
           /\ Len(question) < 3
           /\ response = [status |-> 400]
           /\ priority = <<>>
           /\ priority_path = ""
           /\ expanded_queries = <<>>
           /\ all_docs_with_scores = <<>>
           /\ answer_text = <<>>
           /\ judge_result = <<>>
           /\ metrics_log = <<>>
    /\ pc \in {"priority", "expand", "search", "draft", "score", "judge",
               "done", "failed"} =>
           /\ Len(question) >= 3
           /\ "status" \in DOMAIN response => response.status /= 400

\* C13 happens: a question of white space only was posted and rejected
C13_BlankQuestionRejected ==
    /\ pc = "rejected"
    /\ question = <<>>
    /\ response.status = 400

(***************************************************************************)
(* Routing against the tier of get_escalation_level                        *)
(***************************************************************************)

\* the place of a tier in the order None < L1 < L2 < L3; a value outside
\* the order counts as the lowest
TierRank(tier) ==
    IF tier = "L1" THEN 1
    ELSE IF tier = "L2" THEN 2
    ELSE IF tier = "L3" THEN 3
    ELSE 0

C15_OneRecordPerAcceptedRequest ==
    pc = "done" => Len(metrics_log) = 1

(***************************************************************************)
(* The scenario of a highly relevant document                              *)
(***************************************************************************)

\* ask has returned after drafting an answer that matches a structure
\* pattern, has no refusal phrase and has a URL of the official domains,
\* from documents of which the best has a relevancy above 0.9
HighRelevancyScenario ==
    /\ pc = "done"
    /\ path \in {"low_confidence", "answered"}
    /\ \E i \in 1..Len(used_docs) : 1000 - used_docs[i][2] > 900
    /\ structure_matches(answer_text) >= 1
    /\ ~ContainsAny(lower(answer_text), negative_phrases)
    /\ \E i \in 1..Len(extract_urls_from_text(answer_text)) :
           is_valid_sber_url(extract_urls_from_text(answer_text)[i])

\* C16: in the scenario the confidence is 0.8 or more and, unless the
\* priority of the request is HIGH, the Answer is not routed (route_to
\* None).
C16_HighRelevancyIsConfidentAndAnswered ==
    HighRelevancyScenario =>
        /\ response.confidence >= 800
        /\ priority /= s_HIGH => response.route_to = None

(***************************************************************************)
(* The URLs of an Answer                                                   *)
(***************************************************************************)

\* the URLs of the curated table SBER_SITE_SECTIONS
CuratedUrls == {SBER_SITE_SECTIONS[k][2] : k \in 1..Len(SBER_SITE_SECTIONS)}

\* the text that ask has appended to the drafted answer
AppendedLinks ==
    SubSeq(response.answer.text, Len(answer_text) + 1,
           Len(response.answer.text))

C18_QueriesStartWithQuestionUniqueAtMostFour ==
    pc \in {"search", "draft", "done"} =>
        /\ expanded_queries /= <<>>
        /\ expanded_queries[1] = question
        /\ \A i, j \in 1..Len(expanded_queries) :
               expanded_queries[i] = expanded_queries[j] => i = j
        /\ Len(expanded_queries) <= 4
        /\ query_index \in 1..Len(expanded_queries)

\* C18 happens: the paraphrase call has returned more than three
\* paraphrases and the loop has issued its fourth and last lookup
C18_FourthLookupIssued ==
    /\ pc \in {"draft", "done"}
    /\ Len(expanded_queries) = 4
    /\ query_index = 4

(***************************************************************************)
(* The values of route_to and priority                                     *)
(***************************************************************************)

\* C19: the route_to of every returned Answer is None, L1, L2 or L3,
\* whatever the priority, the confidence and the output of the judge are.
C19_RouteIsATier ==
    pc = "done" => response.route_to \in {None, "L1", "L2", "L3"}

\* C20: the priority of every returned Answer is low, medium or high in
\* lower case, whatever the outcome of the classifier and the output of
\* the judge are.
C20_PriorityIsALevel ==
    pc = "done" => response.priority \in {s_low, s_medium, s_high}

(***************************************************************************)
(* Failures of the paraphrase call                                         *)
(***************************************************************************)

\* the text is a JSON object, not paraphrases of a question
IsJsonObject(text) ==
    text /= <<>> /\ text[1] = 123 /\ text[Len(text)] = 125

\* the paraphrase call has failed: it raised (a timeout raises), returned
\* nothing, or returned an object in place of paraphrases
FailedParaphrase(reply) ==
    IF reply.raises THEN TRUE
    ELSE reply.text = <<>> \/ IsJsonObject(reply.text)

\* C21: when the paraphrase call raises, times out or returns an empty or a
\* malformed output, expand_query returns the list of the original question
\* alone (and raises nothing: the lookup loop starts).
C21_FailedParaphraseKeepsQuestionOnly ==
    (/\ recording
     /\ pc = "search"
     /\ query_index = 1
     /\ all_docs_with_scores = <<>>
     /\ calls /= <<>>
     /\ calls[Len(calls)].to = "paraphrase"
     /\ FailedParaphrase(calls[Len(calls)].reply)) =>
        expanded_queries = <<question>>

(***************************************************************************)
(* Relevance Gate                                                          *)
(***************************************************************************)

\* the Relevance Gate of ask has run on a DocumentSet that is not empty
Gated == pc = "draft" \/ (pc = "done" /\ path = "no_relevant_documents")

\* sub is seq with some elements left out
RECURSIVE IsSubsequence(_, _)
IsSubsequence(sub, seq) ==
    IF sub = <<>> THEN TRUE
    ELSE IF seq = <<>> THEN FALSE
    ELSE IF Head(sub) = Head(seq) THEN IsSubsequence(Tail(sub), Tail(seq))
    ELSE IsSubsequence(sub, Tail(seq))

\* the content of the hit has one or more of the terms of the question
HasTermOf(hit, q) ==
    \E term \in extract_core_terms(q) : Contains(lower(hit[1].page_content), term)

\* C22: the ContextWindow is the sorted DocumentSet with documents left
\* out, in the same order; each of its documents has a distance of 0.95 at
\* most and has one or more of the extracted terms of the question, or the
\* question has no extracted term.
C22_WindowIsGatedSubsequence ==
    Gated =>
        /\ IsSubsequence(used_docs, sorted_docs)
        /\ \A i \in 1..Len(used_docs) :
               /\ used_docs[i][2] <= 950
               /\ extract_core_terms(question) = {} \/ HasTermOf(used_docs[i], question)

\* C22 happens: the gate has accepted a document after it left out one with
\* a distance at most 0.95 and none of the terms, and it left out one with a
\* distance above 0.95
C22_GateLeftOutByTermsAndByDistance ==
    /\ pc = "draft"
    /\ extract_core_terms(question) /= {}
    /\ \E i \in 1..Len(sorted_docs) :
           /\ sorted_docs[i][2] <= 950
           /\ ~HasTermOf(sorted_docs[i], question)
           /\ \E j \in (i + 1)..Len(sorted_docs) : sorted_docs[j] = used_docs[1]
    /\ \E i \in 1..Len(sorted_docs) : sorted_docs[i][2] > 950

\* C23: the ContextWindow has 5 documents at most, and the documents joined
\* by blank lines have 3500 characters at most.
C23_WindowWithinBudget ==
    Gated =>
        /\ Len(used_docs) <= 5
        /\ Len(join(<<10, 10>>, contents_of(used_docs))) <= 3500

(***************************************************************************)
(* Priority Classifier                                                     *)
(***************************************************************************)

\* the priorities that detect_priority has returned to ask and to
\* debug_confidence, each with the question it classified and with the
\* classification path where the state holds it
Classified ==
    (IF pc \in {"expand", "search", "draft", "score", "judge", "done", "failed"}
     THEN {<<question, priority, priority_path>>} ELSE {}) \cup
    (IF debug_response.status = 200
     THEN {<<debug_response.question, debug_response.priority, "">>} ELSE {})

\* the keyword classification: HIGH with a term of high priority, else
\* MEDIUM with a term of medium priority, else LOW
KeywordPriority(q) ==
    IF \E term \in HIGH_PRIORITY_TERMS : Contains(lower(q), term) THEN s_HIGH
    ELSE IF \E term \in MEDIUM_PRIORITY_TERMS : Contains(lower(q), term) THEN s_MEDIUM
    ELSE s_LOW

\* C24: detect_priority returns LOW, MEDIUM or HIGH, and when the LLM call
\* failed or returned no such word the result is the keyword
\* classification: HIGH for a question with a term of high priority, terms
\* of medium priority or not, MEDIUM for one with terms of medium priority
\* only, LOW for every other.
C24_PriorityIsALabelAndKeywordsOnFailure ==
    \A c \in Classified :
        /\ c[2] \in {s_LOW, s_MEDIUM, s_HIGH}
        /\ c[3] = "keywords" => c[2] = KeywordPriority(c[1])

\* C24 happens: the LLM call failed or returned no label, and the question
\* has terms of high and of medium priority
C24_KeywordsWithHighAndMediumTerms ==
    /\ pc = "expand"
    /\ priority_path = "keywords"
    /\ \E term \in HIGH_PRIORITY_TERMS : Contains(lower(question), term)
    /\ \E term \in MEDIUM_PRIORITY_TERMS : Contains(lower(question), term)
    /\ priority = s_HIGH

(***************************************************************************)
(* Failures of the judge call                                              *)
(***************************************************************************)

\* the judge call of the request raised or returned no JSON object
JudgeFailed ==
    /\ recording
    /\ pc \in {"done", "failed"}
    /\ path \in {"answered", "validation_error"}
    /\ calls[Len(calls)].to = "judge"
    /\ calls[Len(calls)].reply.kind \in {"raises", "not_dict"}

\* C25: when the judge call raises or returns no valid structured data, the
\* judgment that ask uses has helped = true and a tier only for a request of
\* priority HIGH, the tier L3; for MEDIUM and LOW it has no tier.
C25_DefaultJudgmentRoutesOnlyHighToL3 ==
    JudgeFailed =>
        /\ judge_result["helped"] = TRUE
        /\ judge_result["route_to"] = (IF priority = s_HIGH THEN "L3" ELSE None)

(***************************************************************************)
(* Order of the external calls                                             *)
(***************************************************************************)

\* C26: in every run of ask the drafting call is made only after the
\* Relevance Gate produced a ContextWindow that is not empty, the confidence
\* is computed only after the drafting call, and the judge is called only
\* after the confidence was found at or above the threshold; a request that
\* ends on the no-documents, no-relevant-documents or low-confidence path
\* has not called the judge, and one that ends on the first two has neither
\* drafted an answer nor computed a confidence.
C26_CallsAreOrdered ==
    [][/\ (pc' = "draft" /\ pc /= "draft") =>
              (pc = "search" /\ used_docs' /= <<>> /\ answer_text' = <<>>)
       /\ (pc' = "score" /\ pc /= "score") => pc = "draft"
       /\ assessment' /= assessment => pc \in {"score", "done"}
       /\ (pc' = "judge" /\ pc /= "judge") =>
              (pc = "score" /\ assessment'.score >= CONFIDENCE_THRESHOLD)
       /\ judge_result' /= judge_result => pc \in {"judge", "done"}
       /\ (pc' = "done" /\ path' \in EscalationPaths) =>
              (pc \in {"search", "score"} /\ judge_result' = <<>>)
       /\ (pc' = "done" /\ path' \in {"no_documents", "no_relevant_documents"}) =>
              (pc = "search" /\ answer_text' = <<>> /\ assessment' = NoAssessment)
      ]_vars

\* C26 happens: a request has passed the gate, the drafting call, the
\* confidence and the judge, in this order, and is answered
C26_AnsweredAfterAllCalls ==
    /\ pc = "done"
    /\ path = "answered"
    /\ used_docs /= <<>>
    /\ answer_text /= <<>>
    /\ assessment.score >= CONFIDENCE_THRESHOLD
    /\ judge_result /= <<>>

(***************************************************************************)
(* Failures of the index                                                   *)
(***************************************************************************)

\* the lookup loop of a request whose lookups are recorded has ended
LoopEnded == recording /\ earlier = <<>> /\ pc \in {"draft", "done", "failed"}

\* the recorded lookups that returned
LookupsReturned == {i \in 1..Len(calls) : calls[i].to = "index" /\ ~calls[i].reply.raises}

\* the recorded lookups that raised
LookupsRaised == {i \in 1..Len(calls) : calls[i].to = "index" /\ calls[i].reply.raises}

\* the hit is in the DocumentSet, itself or as a document with its
\* fingerprint and a distance that is not larger
Pooled(hit) ==
    \E j \in 1..Len(sorted_docs) :
        /\ Fingerprint(sorted_docs[j]) = Fingerprint(hit)
        /\ sorted_docs[j][2] <= hit[2]

\* C27: when the index lookup raises for some of the expanded queries, the
\* hits of the other queries are pooled and the request continues with
\* them; when it raises for all of them, the request ends with the
\* no-documents escalation Answer, not with an error.
C27_LookupFailuresAreSurvived ==
    LoopEnded =>
        /\ pc /= "failed"
        /\ \A i \in LookupsReturned :
               \A k \in 1..Len(calls[i].reply.hits) : Pooled(calls[i].reply.hits[k])
        /\ (\E i \in LookupsReturned : calls[i].reply.hits /= <<>>) =>
               path /= "no_documents"
        /\ LookupsReturned = {} =>
               /\ pc = "done"
               /\ path = "no_documents"
               /\ response.answer.kind = "scripted"
               /\ response.confidence_below_threshold
               /\ response.route_to \in {"L1", "L2", "L3"}

\* C27 happens: of three or more lookups one raised and another returned
\* documents, and the request went on to the drafting call
C27_SomeLookupsRaised ==
    /\ LoopEnded
    /\ pc = "draft"
    /\ Len(calls) >= 3
    /\ LookupsRaised /= {}
    /\ \E i \in LookupsReturned : calls[i].reply.hits /= <<>>

(***************************************************************************)
(* The flag confidence_below_threshold                                     *)
(***************************************************************************)

\* C28: in every Answer of ask confidence_below_threshold is true exactly
\* when the confidence is below CONFIDENCE_THRESHOLD (a confidence equal to
\* the threshold is not escalated), and an Answer with the flag has a route
\* and no sources.
C28_FlagIffBelowThreshold ==
    pc = "done" =>
        /\ response.confidence_below_threshold
               = (response.confidence < CONFIDENCE_THRESHOLD)
        /\ response.confidence_below_threshold =>
               (response.route_to /= None /\ response.sources = <<>>)

\* C28 happens: a drafted answer has a confidence equal to the threshold and
\* is answered without the flag
C28_ConfidenceEqualToThreshold ==
    /\ pc = "done"
    /\ path = "answered"
    /\ response.confidence = CONFIDENCE_THRESHOLD
    /\ ~response.confidence_below_threshold

(***************************************************************************)
(* The tier of the scripted message and the tier of the engine             *)
(***************************************************************************)

\* priority values in upper, lower and mixed case: the labels, "High" and
\* "Medium"
PriorityValues ==
    {s_LOW, s_MEDIUM, s_HIGH, s_low, s_medium, s_high,
     <<72, 105, 103, 104>>, <<77, 101, 100, 105, 117, 109>>}

\* confidences below the threshold, in thousandths: the fixed values of the
\* short-circuit branches, the smallest and the largest
ConfidencesBelowThreshold == {0, 100, 200, CONFIDENCE_THRESHOLD - 1}

\* C29: for every priority value, in any letter case, and every confidence
\* below the threshold generate_low_confidence_response returns the tier
\* that get_escalation_level returns, and the route_to of an escalated
\* Answer is the tier that the engine computed for the request.
C29_ScriptedTierIsEngineTier ==
    /\ \A p \in PriorityValues, c \in ConfidencesBelowThreshold :
           generate_low_confidence_response(p, c, "")[2] = get_escalation_level(p, c)[1]
    /\ (pc = "done" /\ path \in EscalationPaths) =>
           response.route_to = get_escalation_level(priority, response.confidence)[1]

\* C29 happens: a drafted answer with a confidence below the threshold was
\* escalated for a request whose priority is not LOW
C29_EscalatedBelowThreshold ==
    /\ pc = "done"
    /\ path = "low_confidence"
    /\ priority \in {s_MEDIUM, s_HIGH}
    /\ response.confidence < CONFIDENCE_THRESHOLD
    /\ response.route_to = get_escalation_level(priority, response.confidence)[1]

(***************************************************************************)
(* Failure of the drafting call                                            *)
(***************************************************************************)

\* C30: a request whose drafting call failed, so that the fixed error text
\* took the place of the answer, is not returned as fully resolved: its
\* Answer has a route, whatever the priority, the used documents and the
\* judge output are.
C30_FailedDraftIsRouted ==
    (pc = "done" /\ answer_text = ERROR_ANSWER) => response.route_to /= None
====
